---- MODULE Spec2Model ----
(***************************************************************************)
(* InlineCache (src/include/inline_cache.h): a sharded integer -> string   *)
(* cache with per-bucket mutexes, a global recency list under its own      *)
(* mutex, plain (non-atomic) statistics counters and three eviction        *)
(* policies.  Every public operation is modelled step by step: one step is *)
(* a maximal run of code between two points where another thread can       *)
(* interfere (a mutex acquisition, a load or a store of a shared counter). *)
(***************************************************************************)
EXTENDS Integers, Sequences, FiniteSets, TLC

(***************************************************************************)
(* Bounds of the model.                                                    *)
(***************************************************************************)
Threads == {1, 2}
Keys == {1, 2, 3}
Values == {"a", "bb"}
\* buckets_.size(): the constructor's bucketCount, scaled down from 1031
NBuckets == 2
\* calls each thread makes under Spec
MaxOps == 2
\* calls the single thread makes under SpecSeq
MaxSeqOps == 4
\* calls the first worker makes under SpecDisjoint
MaxDisjointOps == 3

(***************************************************************************)
(* Program constants.                                                      *)
(***************************************************************************)
\* sizeof(Entry) on an LP64 build: int 4 (+4 padding), std::string 32,
\* time_point 8, list iterator 8, size_t 8
SizeofEntry == 64
\* evictIfNeeded: guard < 10000
GuardCap == 10000
\* evictRandom: attempts < 32
MaxAttempts == 32
\* default maxBytes of the constructor, 2 * 1024 * 1024
DefaultMaxBytes == 2 * 1024 * 1024
\* victimKey = -1: "no victim"
NoVictim == -1
\* SIZE_MAX, in the representation of size_t used below
SizeMax == -1

Policies == {"LRU", "FIFO", "Random"}
\* a budget that holds one entry whose value has length 1
OneEntryBudget == SizeofEntry + 1
\* the tests' budget for two entries: per * 2 + 16 with per = sizeof(Entry) + 1
TwoEntryBudget == (SizeofEntry + 1) * 2 + 16
\* a budget that two entries whose values have length 1 fill exactly
ExactTwoBudget == (SizeofEntry + 1) * 2
\* the budgets of the single-threaded runs, and of the concurrent ones
Budgets == {OneEntryBudget, ExactTwoBudget, TwoEntryBudget, DefaultMaxBytes}
ConcurrentBudgets == {OneEntryBudget, DefaultMaxBytes}
\* a budget that holds one entry per thread whatever value the entry has
DisjointBudget ==
    Cardinality(Threads) * (SizeofEntry + CHOOSE n \in {Len(v) : v \in Values} :
                                              \A v \in Values : Len(v) <= n)

(***************************************************************************)
(* size_t arithmetic.  A size_t value v is represented by the integer r    *)
(* closest to zero with r = v (mod 2^64): 2^64 - 1 is -1.  Sums and        *)
(* differences of representations represent the wrapped result as long as  *)
(* they stay small, which the bounds guarantee; the unsigned order puts    *)
(* every negative representation above every non-negative one.             *)
(***************************************************************************)
ULess(a, b) == IF (a >= 0) = (b >= 0) THEN a < b ELSE a >= 0

UGreater(a, b) == ULess(b, a)

RECURSIVE Pow2Mod(_, _)
Pow2Mod(e, n) == IF e = 0 THEN 1 % n ELSE (2 * Pow2Mod(e - 1, n)) % n

\* static_cast<size_t>(key) % buckets_.size()
BucketIndex(key) ==
    IF key >= 0 THEN key % NBuckets
    ELSE (Pow2Mod(64, NBuckets) + (key % NBuckets)) % NBuckets

BucketIds == 0 .. (NBuckets - 1)

(***************************************************************************)
(* Lists.                                                                  *)
(***************************************************************************)
RECURSIVE FindIdxFrom(_, _, _)
FindIdxFrom(entries, key, i) ==
    IF i > Len(entries) THEN 0
    ELSE IF entries[i].key = key THEN i
    ELSE FindIdxFrom(entries, key, i + 1)

\* for (it = begin; it != end; ++it) if (it->key == key): index of the first match, 0 if none
FindIdx(entries, key) == FindIdxFrom(entries, key, 1)

RemoveAt(s, i) == SubSeq(s, 1, i - 1) \o SubSeq(s, i + 1, Len(s))

RECURSIVE NodeIdxFrom(_, _, _)
NodeIdxFrom(list, it, i) ==
    IF i > Len(list) THEN 0
    ELSE IF list[i].id = it THEN i
    ELSE NodeIdxFrom(list, it, i + 1)

\* the position of the node an iterator refers to, 0 if the iterator dangles
NodeIdx(list, it) == NodeIdxFrom(list, it, 1)

\* lruList_.erase(it)
ListErase(list, it) ==
    IF NodeIdx(list, it) = 0 THEN list ELSE RemoveAt(list, NodeIdx(list, it))

\* lruList_.insert(lruList_.begin(), k), the new node named it
ListPushFront(list, it, k) == <<[id |-> it, key |-> k]>> \o list

\* touchLRU with the move to the front forgotten
TouchLRUStays(list, it) == list

\* touchLRU's critical section: move the node to the front if it is not already there
TouchLRU(list, it) ==
    IF NodeIdx(list, it) <= 1 THEN list
    ELSE ListPushFront(ListErase(list, it), it, list[NodeIdx(list, it)].key)

\* adjustBytesOnUpdate with the shrink branch forgotten
AdjustBytesGrowOnly(bytes, oldVal, newVal) ==
    IF Len(newVal) > Len(oldVal) THEN bytes + (Len(newVal) - Len(oldVal)) ELSE bytes

AdjustBytesOnUpdate(bytes, oldVal, newVal) ==
    IF Len(newVal) > Len(oldVal)
    THEN bytes + (Len(newVal) - Len(oldVal))
    ELSE bytes - (Len(oldVal) - Len(newVal))

(***************************************************************************)
(* State.                                                                  *)
(***************************************************************************)
VARIABLES
    policy_,      \* Policy, fixed at construction
    maxBytes_,    \* byte budget, fixed at construction
    buckets_,     \* bucket index -> its entries, front first
    mtx,          \* bucket index -> the thread that holds Bucket::mtx, 0 if free
    lruMutex_,    \* the thread that holds lruMutex_, 0 if free
    lruList_,     \* the recency list, front (most recent) first
    fifoCounter_, \* std::atomic<size_t>
    stats_,       \* Stats: plain size_t fields
    th,           \* thread -> its position and locals inside the call it runs
    opsLeft,      \* thread -> calls it may still start
    pre,          \* history, single-threaded runs only: the last call entered
    getsCalled,   \* history: the number of get calls made so far
    evicted,      \* history: the number of entries erase has removed for evictIfNeeded
    wrote,        \* history, disjoint-key runs only: thread -> the value its calls
                  \* leave under its key, "nullopt" if they leave none
    persistence_adapter, \* KeyValueServer: the kv_store table, key -> value, "nullopt"
                         \* for no row
    skip_preload, \* KeyValueServer::skip_preload
    listening,    \* KeyValueServer::start() has run and the server accepts requests
    res,          \* the status of the last response sent, 0 before the first
    out,          \* out["value"] of the last response, "" when it has none
    req,          \* history, server runs only: the last request, the cache and the
                  \* table it found, and how its call of the persistence layer went
    free_conns,   \* PersistenceAdapter: Impl::free_conns, the connections of the pool
                  \* that are not borrowed, front first; connection 1 is p_->conn
    handling      \* concurrent server runs only: thread -> the request it handles,
                  \* its position in the handler and the handler's locals

vars ==
    <<policy_, maxBytes_, buckets_, mtx, lruMutex_, lruList_, fifoCounter_, stats_, th,
      opsLeft, pre, getsCalled, evicted, wrote, persistence_adapter, skip_preload,
      listening, res, out, req, free_conns, handling>>

\* the server's part of the state
serverVars ==
    <<persistence_adapter, skip_preload, listening, res, out, req, free_conns, handling>>

\* the cache's shared state as one value, so that a step is a function of it
Shared ==
    [buckets |-> buckets_, mtx |-> mtx, lruMutex |-> lruMutex_, lruList |-> lruList_,
     fifoCounter |-> fifoCounter_, stats |-> stats_]

\* InlineCache(policy, maxBytes, bucketCount): empty buckets, empty list, zero counters
EmptyCache ==
    [buckets |-> [b \in BucketIds |-> <<>>], mtx |-> [b \in BucketIds |-> 0],
     lruMutex |-> 0, lruList |-> <<>>, fifoCounter |-> 0,
     stats |-> [size_entries |-> 0, bytes_estimated |-> 0, hits |-> 0, misses |-> 0,
                evictions |-> 0]]

\* a thread outside any call; ret is what its last call returned
IdleLocal ==
    [pc |-> "idle", op |-> "none", key |-> 0, value |-> "", ret |-> "none",
     inserted |-> FALSE, ekey |-> 0, guard |-> 0, victimKey |-> NoVictim,
     victimOrder |-> SizeMax, bi |-> 0, attempts |-> 0, loaded |-> FALSE, tmp |-> 0]

WriteOps == {"update_or_insert", "insert_if_absent", "update"}
Ops == WriteOps \cup {"get", "erase"}

\* the entry of key in its bucket; used only where the scan has found it
EntryOf(c, key) ==
    c.buckets[BucketIndex(key)][FindIdx(c.buckets[BucketIndex(key)], key)]

Present(c, key) == FindIdx(c.buckets[BucketIndex(key)], key) # 0

Lock(c, b, t) == [c EXCEPT !.mtx[b] = t]

Unlock(c, b) == [c EXCEPT !.mtx[b] = 0]

LockLru(c, t) == [c EXCEPT !.lruMutex = t]

UnlockLru(c) == [c EXCEPT !.lruMutex = 0]

\* the lock_guards of the running call go out of scope: lru_lock (taken on the
\* new-entry path only), then lg
ReleaseGuards(c, l) ==
    LET c1 == IF l.inserted THEN UnlockLru(c) ELSE c
    IN  Unlock(c1, BucketIndex(l.key))

\* the call is over with result r
Finished(l, r) == [IdleLocal EXCEPT !.ret = r]

\* return r from a public operation
Return(c, l, r) == [c |-> ReleaseGuards(c, l), l |-> Finished(l, r)]

Goto(c, l, pc) == [c |-> c, l |-> [l EXCEPT !.pc = pc]]

\* a step that ends by acquiring a mutex goes on to the load of the counter statement
\* at pc that follows it: an acquisition commutes to the right of the other threads'
\* steps, so the two are one step
GotoLoaded(c, l, pc, field) ==
    [c |-> c, l |-> [l EXCEPT !.pc = pc, !.loaded = TRUE, !.tmp = c.stats[field]]]

(***************************************************************************)
(* The steps.  Each is a function of the shared state c, the thread's      *)
(* locals l and the thread t, giving the set of possible results           *)
(* [c |-> shared state, l |-> locals]; the empty set means the thread      *)
(* waits (the mutex it wants is held).                                     *)
(***************************************************************************)
\* a default-constructed list iterator: the {} of Entry{key, value, now(), {}, ...}
NoIter == -1

\* push_front of an entry whose value is left empty
PushNewEntryNoValue(c, key, value) ==
    [c EXCEPT !.buckets[BucketIndex(key)] =
                  <<[key |-> key, value |-> "", lru_iterator |-> NoIter,
                     fifo_order |-> c.fifoCounter]>> \o @,
              !.fifoCounter = @ + 1]

\* bucket.entries.push_front(Entry{key, value, now(), {}, fifoCounter_++})
PushNewEntry(c, key, value) ==
    [c EXCEPT !.buckets[BucketIndex(key)] =
                  <<[key |-> key, value |-> value, lru_iterator |-> NoIter,
                     fifo_order |-> c.fifoCounter]>> \o @,
              !.fifoCounter = @ + 1]

\* get, lines 53-56 and 61: lock the bucket and scan it
GetScan(c, l, t) ==
    LET b == BucketIndex(l.key) IN
    IF c.mtx[b] # 0 THEN {}
    ELSE IF FindIdx(c.buckets[b], l.key) # 0
         THEN {GotoLoaded(Lock(c, b, t), l, "hit_inc", "hits")}
         ELSE {GotoLoaded(Lock(c, b, t), l, "miss_inc", "misses")}

\* update_or_insert whose update branch forgets adjustBytesOnUpdate
UpdateOrInsertNoAdjust(c, l, t) ==
    LET b == BucketIndex(l.key) IN
    IF c.mtx[b] # 0 THEN {}
    ELSE IF FindIdx(c.buckets[b], l.key) # 0
         THEN {Goto([Lock(c, b, t) EXCEPT
                         !.buckets[b][FindIdx(c.buckets[b], l.key)].value = l.value],
                    l, "touch")}
         ELSE {Goto(PushNewEntry(Lock(c, b, t), l.key, l.value), l, "ins_lru")}

\* update_or_insert, lines 68-72 and 80-83
UpdateOrInsertScan(c, l, t) ==
    LET b == BucketIndex(l.key) IN
    IF c.mtx[b] # 0 THEN {}
    ELSE IF FindIdx(c.buckets[b], l.key) # 0
         THEN {GotoLoaded(Lock(c, b, t), l, "upd_bytes", "bytes_estimated")}
         ELSE {Goto(PushNewEntry(Lock(c, b, t), l.key, l.value), l, "ins_lru")}

\* insert_if_absent without the scan for an existing key
InsertIfAbsentNoScan(c, l, t) ==
    IF c.mtx[BucketIndex(l.key)] # 0 THEN {}
    ELSE {Goto(PushNewEntry(Lock(c, BucketIndex(l.key), t), l.key, l.value), l, "ins_lru")}

\* insert_if_absent that overwrites the value of an existing key
InsertIfAbsentOverwrites(c, l, t) ==
    LET b == BucketIndex(l.key) IN
    IF c.mtx[b] # 0 THEN {}
    ELSE IF FindIdx(c.buckets[b], l.key) # 0
         THEN {Goto([Lock(c, b, t) EXCEPT
                         !.buckets[b][FindIdx(c.buckets[b], l.key)].value = l.value],
                    l, "touch")}
         ELSE {Goto(PushNewEntry(Lock(c, b, t), l.key, l.value), l, "ins_lru")}

\* insert_if_absent, lines 95-98 and 102-104
InsertIfAbsentScan(c, l, t) ==
    LET b == BucketIndex(l.key) IN
    IF c.mtx[b] # 0 THEN {}
    ELSE IF FindIdx(c.buckets[b], l.key) # 0
         THEN {Goto(Lock(c, b, t), l, "touch")}
         ELSE {Goto(PushNewEntry(Lock(c, b, t), l.key, l.value), l, "ins_lru")}

\* update that, finding no entry, creates one
UpdateInsertsAbsent(c, l, t) ==
    LET b == BucketIndex(l.key) IN
    IF c.mtx[b] # 0 THEN {}
    ELSE IF FindIdx(c.buckets[b], l.key) # 0
         THEN {GotoLoaded(Lock(c, b, t), l, "upd_bytes", "bytes_estimated")}
         ELSE {Goto(PushNewEntry(Lock(c, b, t), l.key, l.value), l, "ins_lru")}

\* update, lines 116-119 and 127-128
UpdateScan(c, l, t) ==
    LET b == BucketIndex(l.key) IN
    IF c.mtx[b] # 0 THEN {}
    ELSE IF FindIdx(c.buckets[b], l.key) # 0
         THEN {GotoLoaded(Lock(c, b, t), l, "upd_bytes", "bytes_estimated")}
         ELSE {[c |-> c, l |-> Finished(l, "false")]}

\* lines 84-86 and 105-107: lru_lock, the new node at the front of lruList_, and
\* its iterator stored in the new entry (the front of the bucket)
InsertLruNode(c, l, t) ==
    IF c.lruMutex # 0 THEN {}
    ELSE LET b == BucketIndex(l.key)
             e == c.buckets[b][1]
             c1 == [LockLru(c, t) EXCEPT
                        !.lruList = ListPushFront(@, e.fifo_order, l.key),
                        !.buckets[b][1].lru_iterator = e.fifo_order]
         IN  {GotoLoaded(c1, [l EXCEPT !.inserted = TRUE], "ins_size", "size_entries")}

\* the statements that read-modify-write a field of stats_, by position
StatPcs ==
    {"hit_inc", "miss_inc", "ins_size", "ins_bytes", "upd_bytes", "rm_bytes", "rm_size",
     "ev_inc"}

StatField(pc) ==
    CASE pc = "hit_inc" -> "hits"
      [] pc = "miss_inc" -> "misses"
      [] pc \in {"ins_size", "rm_size"} -> "size_entries"
      [] pc \in {"ins_bytes", "upd_bytes", "rm_bytes"} -> "bytes_estimated"
      [] pc = "ev_inc" -> "evictions"

\* the load half of stats_.f++, stats_.f += d, stats_.f -= d, stats_.f--
StatLoad(c, l, t) ==
    {[c |-> c, l |-> [l EXCEPT !.loaded = TRUE, !.tmp = c.stats[StatField(l.pc)]]]}

\* the value the statement at l.pc stores, from the value it loaded
StatValue(c, l) ==
    CASE l.pc \in {"hit_inc", "miss_inc", "ins_size", "ev_inc"} -> l.tmp + 1
      [] l.pc = "ins_bytes" -> l.tmp + (SizeofEntry + Len(l.value))
      [] l.pc = "upd_bytes" ->
            AdjustBytesOnUpdate(l.tmp, EntryOf(c, l.key).value, l.value)
      [] l.pc = "rm_bytes" -> l.tmp - (SizeofEntry + Len(EntryOf(c, l.ekey).value))
      [] l.pc = "rm_size" -> l.tmp - 1

\* an update that leaves the old value in the entry
AssignValueKeeps(c, key, value) == c

\* it->value = value (it->timestamp is never read and is left out)
AssignValue(c, key, value) ==
    [c EXCEPT !.buckets[BucketIndex(key)][FindIdx(c.buckets[BucketIndex(key)], key)].value =
                  value]

\* erase without bucket.entries.erase(it)
EraseEntryKeeps(c, key) == c

\* bucket.entries.erase(it)
EraseEntry(c, key) ==
    [c EXCEPT !.buckets[BucketIndex(key)] =
                  RemoveAt(@, FindIdx(c.buckets[BucketIndex(key)], key))]

\* the store half, and the straight-line code up to the next step
StatStore(c, l, t) ==
    LET c1 == [c EXCEPT !.stats[StatField(l.pc)] = StatValue(c, l)]
        l1 == [l EXCEPT !.loaded = FALSE, !.tmp = 0]
    IN  CASE l.pc = "hit_inc" -> {Goto(c1, l1, "touch")}
          [] l.pc = "miss_inc" -> {Return(c1, l1, "nullopt")}
          [] l.pc = "ins_size" -> {Goto(c1, l1, "ins_bytes")}
          [] l.pc = "ins_bytes" -> {Goto(c1, l1, "ev_test")}
          [] l.pc = "upd_bytes" -> {Goto(AssignValue(c1, l.key, l.value), l1, "touch")}
          [] l.pc = "rm_bytes" -> {Goto(c1, l1, "rm_size")}
          [] l.pc = "rm_size" ->
                LET c2 == Unlock(EraseEntry(c1, l.ekey), BucketIndex(l.ekey))
                IN  IF l.op = "erase" THEN {[c |-> c2, l |-> Finished(l1, "true")]}
                    ELSE {Goto(c2, l1, "ev_inc")}
          [] l.pc = "ev_inc" -> {Goto(c1, l1, "ev_test")}

\* what follows touchLRU in get (59), insert_if_absent (100), update_or_insert (77)
\* and update (124)
AfterTouch(c, l) ==
    CASE l.op = "get" -> Return(c, l, EntryOf(c, l.key).value)
      [] l.op = "insert_if_absent" -> Return(c, l, "false")
      [] l.op = "update_or_insert" -> Goto(c, l, "ev_test")
      [] l.op = "update" -> Goto(c, l, "ev_test")

\* touchLRU without its lock_guard: the list is changed whoever holds lruMutex_
TouchLRUNoLock(c, l, t) ==
    {AfterTouch([c EXCEPT !.lruList = TouchLRU(@, EntryOf(c, l.key).lru_iterator)], l)}

\* touchLRU(it->lru_iterator), lines 177-185, under lruMutex_
TouchLRUStep(c, l, t) ==
    IF c.lruMutex # 0 THEN {}
    ELSE {AfterTouch([c EXCEPT !.lruList = TouchLRU(@, EntryOf(c, l.key).lru_iterator)], l)}

\* the value a write returns after evictIfNeeded: lines 78, 90, 111, 125
WriteResult(l) ==
    CASE l.op = "update_or_insert" -> IF l.inserted THEN "true" ELSE "false"
      [] l.op = "insert_if_absent" -> "true"
      [] l.op = "update" -> "true"

\* evictIfNeeded's loop test weakened to bytes_estimated >= maxBytes_
EvictTestBytesAtBudget(c, l, t) ==
    IF ~ULess(c.stats.bytes_estimated, maxBytes_)
    THEN {Goto(c, l, "ev_test2")}
    ELSE {Return(c, l, WriteResult(l))}

\* evictIfNeeded's loop test, first conjunct: stats_.bytes_estimated > maxBytes_
EvictTestBytes(c, l, t) ==
    IF UGreater(c.stats.bytes_estimated, maxBytes_)
    THEN {Goto(c, l, "ev_test2")}
    ELSE {Return(c, l, WriteResult(l))}

\* evictIfNeeded's loop test without guard < 10000
EvictTestSizeNoGuard(c, l, t) ==
    IF c.stats.size_entries # 0
    THEN {[c |-> c,
           l |-> [l EXCEPT !.guard = @ + 1,
                           !.pc = CASE policy_ = "LRU" -> "lru_pick"
                                    [] policy_ = "FIFO" -> "fifo_scan"
                                    [] policy_ = "Random" -> "rand_draw",
                           !.victimKey = NoVictim, !.victimOrder = SizeMax,
                           !.bi = 0, !.attempts = 0]]}
    ELSE {Return(c, l, WriteResult(l))}

\* the rest of the test, stats_.size_entries > 0 && guard < 10000, ++guard and the
\* dispatch on policy_
EvictTestSize(c, l, t) ==
    IF c.stats.size_entries # 0 /\ l.guard < GuardCap
    THEN {[c |-> c,
           l |-> [l EXCEPT !.guard = @ + 1,
                           !.pc = CASE policy_ = "LRU" -> "lru_pick"
                                    [] policy_ = "FIFO" -> "fifo_scan"
                                    [] policy_ = "Random" -> "rand_draw",
                           !.victimKey = NoVictim, !.victimOrder = SizeMax,
                           !.bi = 0, !.attempts = 0]]}
    ELSE {Return(c, l, WriteResult(l))}

\* evictLRU, lines 215-221: the key at the back of lruList_, read under lruMutex_
EvictLRUPick(c, l, t) ==
    IF c.lruMutex # 0 THEN {}
    ELSE LET victimKey == IF c.lruList = <<>> THEN NoVictim
                          ELSE c.lruList[Len(c.lruList)].key
         IN  IF victimKey = NoVictim THEN {Goto(c, l, "ev_inc")}
             ELSE {[c |-> c, l |-> [l EXCEPT !.pc = "er_lock", !.ekey = victimKey,
                                             !.victimKey = victimKey]]}

\* erase, lines 133-136 and 141: lock the key's bucket and scan it
EraseScan(c, l, t) ==
    LET b == BucketIndex(l.ekey) IN
    IF c.mtx[b] # 0 THEN {}
    ELSE IF FindIdx(c.buckets[b], l.ekey) # 0
         THEN {Goto(Lock(c, b, t), l, "rm_lru")}
         ELSE IF l.op = "erase" THEN {[c |-> c, l |-> Finished(l, "false")]}
              ELSE {Goto(c, l, "ev_inc")}

\* removeEntry that leaves the key's node in lruList_
RemoveEntryNoLru(c, l, t) ==
    IF c.lruMutex # 0 THEN {} ELSE {Goto(c, l, "rm_bytes")}

\* removeEntry, lines 193-196: lruList_.erase(it->lru_iterator) under lruMutex_
RemoveEntryLru(c, l, t) ==
    IF c.lruMutex # 0 THEN {}
    ELSE {Goto([c EXCEPT !.lruList = ListErase(@, EntryOf(c, l.ekey).lru_iterator)],
               l, "rm_bytes")}

RECURSIVE MinFifo(_, _, _, _)
\* lines 230-235 over one bucket: <<victimOrder, victimKey>> after its entries from i on
MinFifo(entries, i, victimOrder, victimKey) ==
    IF i > Len(entries) THEN <<victimOrder, victimKey>>
    ELSE IF ULess(entries[i].fifo_order, victimOrder)
         THEN MinFifo(entries, i + 1, entries[i].fifo_order, entries[i].key)
         ELSE MinFifo(entries, i + 1, victimOrder, victimKey)

\* evictFIFO, lines 228-237: one bucket of the sweep, locked while it is scanned;
\* after the last bucket, erase(victimKey) if there is a victim
EvictFIFOScan(c, l, t) ==
    IF c.mtx[l.bi] # 0 THEN {}
    ELSE LET m == MinFifo(c.buckets[l.bi], 1, l.victimOrder, l.victimKey)
             l1 == [l EXCEPT !.victimOrder = m[1], !.victimKey = m[2], !.bi = @ + 1]
         IN  IF l1.bi < NBuckets THEN {[c |-> c, l |-> l1]}
             ELSE IF l1.victimKey # NoVictim
                  THEN {[c |-> c, l |-> [l1 EXCEPT !.pc = "er_lock", !.ekey = l1.victimKey]]}
                  ELSE {Goto(c, l1, "ev_inc")}

\* evictRandom, lines 246-256, once the drawn bucket l.bi is free: lock it; empty:
\* next attempt; otherwise draw an entry and call erase with the bucket still locked
EvictRandomLock(c, l, t) ==
    IF c.mtx[l.bi] # 0 THEN {}
    ELSE IF c.buckets[l.bi] = <<>>
         THEN {[c |-> c, l |-> [l EXCEPT !.pc = "rand_draw", !.attempts = @ + 1]]}
         ELSE {[c |-> Lock(c, l.bi, t),
                l |-> [l EXCEPT !.pc = "er_lock", !.ekey = c.buckets[l.bi][idx].key,
                                !.victimKey = c.buckets[l.bi][idx].key]] :
                   idx \in 1 .. Len(c.buckets[l.bi])}

\* evictRandom, lines 243-245 and 259-260: the next attempt draws a bucket and goes on
\* to lock it (the thread stays at the lock while the bucket is held); after 32
\* attempts, evictLRU
EvictRandomDraw(c, l, t) ==
    IF l.attempts < MaxAttempts
    THEN UNION {IF c.mtx[b] # 0 THEN {[c |-> c, l |-> [l EXCEPT !.pc = "rand_lock", !.bi = b]]}
                ELSE EvictRandomLock(c, [l EXCEPT !.bi = b], t) : b \in BucketIds}
    ELSE {Goto(c, l, "lru_pick")}

(***************************************************************************)
(* Locking a std::mutex the thread already owns is undefined behaviour.    *)
(* The two outcomes the standard names for it are modelled, chosen         *)
(* nondeterministically: the thread blocks for ever, or lock() throws      *)
(* std::system_error (resource_deadlock_would_occur), which unwinds the    *)
(* call: every lock_guard on the way out releases its mutex.               *)
(***************************************************************************)
\* the mutex the thread acquires in its next step: <<"bucket", b>>, <<"lru", 0>> or
\* <<"none", 0>>
WantedMutex(l) ==
    CASE l.pc = "lock" -> <<"bucket", BucketIndex(l.key)>>
      [] l.pc = "er_lock" -> <<"bucket", BucketIndex(l.ekey)>>
      [] l.pc \in {"fifo_scan", "rand_lock"} -> <<"bucket", l.bi>>
      [] l.pc \in {"touch", "ins_lru", "rm_lru", "lru_pick"} -> <<"lru", 0>>
      [] OTHER -> <<"none", 0>>

\* the thread holding mutex m, 0 if it is free
OwnerOf(c, m) ==
    CASE m[1] = "bucket" -> c.mtx[m[2]]
      [] m[1] = "lru" -> c.lruMutex
      [] OTHER -> 0

SelfRelock(c, l, t) == OwnerOf(c, WantedMutex(l)) = t

ReleaseAll(c, t) ==
    [c EXCEPT !.mtx = [b \in BucketIds |-> IF c.mtx[b] = t THEN 0 ELSE c.mtx[b]],
              !.lruMutex = IF c.lruMutex = t THEN 0 ELSE c.lruMutex]

\* outcome 1: the thread waits for itself, holding what it holds
RelockBlocks(c, l, t) == {Goto(c, l, "hung")}

\* outcome 2: lock() throws and the exception leaves the public operation
RelockThrows(c, l, t) == {[c |-> ReleaseAll(c, t), l |-> Finished(l, "exception")]}

(***************************************************************************)
(* The next step of a thread inside a call, by its position.               *)
(***************************************************************************)
StepOf(c, l, t) ==
    CASE l.pc = "lock" /\ l.op = "get" -> GetScan(c, l, t)
      [] l.pc = "lock" /\ l.op = "update_or_insert" -> UpdateOrInsertScan(c, l, t)
      [] l.pc = "lock" /\ l.op = "insert_if_absent" -> InsertIfAbsentScan(c, l, t)
      [] l.pc = "lock" /\ l.op = "update" -> UpdateScan(c, l, t)
      [] l.pc = "ins_lru" -> InsertLruNode(c, l, t)
      [] l.pc \in StatPcs /\ ~l.loaded -> StatLoad(c, l, t)
      [] l.pc \in StatPcs /\ l.loaded -> StatStore(c, l, t)
      [] l.pc = "touch" -> TouchLRUStep(c, l, t)
      [] l.pc = "ev_test" -> EvictTestBytes(c, l, t)
      [] l.pc = "ev_test2" -> EvictTestSize(c, l, t)
      [] l.pc = "lru_pick" -> EvictLRUPick(c, l, t)
      [] l.pc = "er_lock" -> EraseScan(c, l, t)
      [] l.pc = "rm_lru" -> RemoveEntryLru(c, l, t)
      [] l.pc = "fifo_scan" -> EvictFIFOScan(c, l, t)
      [] l.pc = "rand_draw" -> EvictRandomDraw(c, l, t)
      [] l.pc = "rand_lock" -> EvictRandomLock(c, l, t)
      [] OTHER -> {}

\* a public operation is entered: its arguments and its first position
Enter(op, key, value) ==
    [IdleLocal EXCEPT !.pc = IF op = "erase" THEN "er_lock" ELSE "lock",
                      !.op = op, !.key = key, !.ekey = IF op = "erase" THEN key ELSE 0,
                      !.value = value]

\* every way the thread's next step can go, the outcomes of a self-relock included
ThreadSteps(c, l, t) ==
    IF SelfRelock(c, l, t) THEN RelockBlocks(c, l, t) \cup RelockThrows(c, l, t)
    ELSE StepOf(c, l, t)

RECURSIVE RunSet(_, _)
\* the results in rs, each run on by thread t alone to the end of its call
RunSet(rs, t) ==
    IF \A r \in rs : r.l.pc \in {"idle", "hung"} THEN rs
    ELSE RunSet({r \in rs : r.l.pc \in {"idle", "hung"}} \cup
                UNION {ThreadSteps(r.c, r.l, t) : r \in {q \in rs : q.l.pc \notin {"idle", "hung"}}},
                t)

\* the ways the call op(key, value) made by thread t in state c can end
RunCall(c, op, key, value, t) == RunSet({[c |-> c, l |-> Enter(op, key, value)]}, t)

(***************************************************************************)
(* Actions.                                                                *)
(***************************************************************************)
\* the thread's next step is the bucket.entries.erase(it) of an erase that evictLRU,
\* evictFIFO or evictRandom called
RemovesForEviction(l) == l.pc = "rm_size" /\ l.loaded /\ l.op # "erase"

Apply(t, results) ==
    \E r \in results :
        /\ buckets_' = r.c.buckets
        /\ mtx' = r.c.mtx
        /\ lruMutex_' = r.c.lruMutex
        /\ lruList_' = r.c.lruList
        /\ fifoCounter_' = r.c.fifoCounter
        /\ stats_' = r.c.stats
        /\ th' = [th EXCEPT ![t] = r.l]
        /\ evicted' = IF RemovesForEviction(th[t]) THEN evicted + 1 ELSE evicted
        /\ UNCHANGED <<policy_, maxBytes_, opsLeft, pre, getsCalled, wrote, serverVars>>

At(t, pcs) == th[t].pc \in pcs /\ ~SelfRelock(Shared, th[t], t)

\* a thread calls get(key), erase(key) or one of the three writes (key, value)
Call(t) ==
    /\ th[t].pc = "idle"
    /\ opsLeft[t] > 0
    /\ \E op \in Ops, key \in Keys, value \in Values :
           /\ op \in {"get", "erase"} => value = "a"
           /\ th' = [th EXCEPT ![t] =
                        Enter(op, key, IF op \in WriteOps THEN value ELSE "")]
           /\ getsCalled' = IF op = "get" THEN getsCalled + 1 ELSE getsCalled
    /\ opsLeft' = [opsLeft EXCEPT ![t] = @ - 1]
    /\ UNCHANGED <<policy_, maxBytes_, buckets_, mtx, lruMutex_, lruList_, fifoCounter_,
                   stats_, pre, evicted, wrote, serverVars>>

\* no call entered yet
NoCall == [op |-> "none", key |-> 0, value |-> "", c |-> EmptyCache]

\* the same in a single-threaded run, which records the call and the shared state it
\* starts from
CallSeq(t) ==
    /\ th[t].pc = "idle"
    /\ opsLeft[t] > 0
    /\ \E op \in Ops, key \in Keys, value \in Values :
           /\ op \in {"get", "erase"} => value = "a"
           /\ th' = [th EXCEPT ![t] =
                        Enter(op, key, IF op \in WriteOps THEN value ELSE "")]
           /\ getsCalled' = IF op = "get" THEN getsCalled + 1 ELSE getsCalled
           /\ pre' = [op |-> op, key |-> key,
                      value |-> IF op \in WriteOps THEN value ELSE "",
                      c |-> Shared]
    /\ opsLeft' = [opsLeft EXCEPT ![t] = @ - 1]
    /\ UNCHANGED <<policy_, maxBytes_, buckets_, mtx, lruMutex_, lruList_, fifoCounter_,
                   stats_, evicted, wrote, serverVars>>

\* thread t works on its own key only
OwnKey(t) == t

DisjointOps == Ops

\* what a map holds under a key that held w, after op(key, value)
WroteAfter(w, op, value) ==
    CASE op = "insert_if_absent" -> IF w = "nullopt" THEN value ELSE w
      [] op = "update" -> IF w = "nullopt" THEN w ELSE value
      [] op = "update_or_insert" -> value
      [] op = "erase" -> "nullopt"
      [] OTHER -> w

\* a worker thread goes on to its next call on its own key; an exception that left
\* its last call has ended the worker
CallDisjoint(t) ==
    /\ th[t].pc = "idle"
    /\ th[t].ret # "exception"
    /\ opsLeft[t] > 0
    /\ \E op \in DisjointOps, value \in Values :
           /\ op \in {"get", "erase"} => value = "a"
           /\ th' = [th EXCEPT ![t] =
                        Enter(op, OwnKey(t), IF op \in WriteOps THEN value ELSE "")]
           /\ wrote' = [wrote EXCEPT ![t] = WroteAfter(@, op, value)]
           /\ getsCalled' = IF op = "get" THEN getsCalled + 1 ELSE getsCalled
    /\ opsLeft' = [opsLeft EXCEPT ![t] = @ - 1]
    /\ UNCHANGED <<policy_, maxBytes_, buckets_, mtx, lruMutex_, lruList_, fifoCounter_,
                   stats_, pre, evicted, serverVars>>

DoGetScan(t) ==
    At(t, {"lock"}) /\ th[t].op = "get" /\ Apply(t, GetScan(Shared, th[t], t))

DoUpdateOrInsertScan(t) ==
    /\ At(t, {"lock"}) /\ th[t].op = "update_or_insert"
    /\ Apply(t, UpdateOrInsertScan(Shared, th[t], t))

DoInsertIfAbsentScan(t) ==
    /\ At(t, {"lock"}) /\ th[t].op = "insert_if_absent"
    /\ Apply(t, InsertIfAbsentScan(Shared, th[t], t))

DoUpdateScan(t) ==
    At(t, {"lock"}) /\ th[t].op = "update" /\ Apply(t, UpdateScan(Shared, th[t], t))

DoInsertLruNode(t) == At(t, {"ins_lru"}) /\ Apply(t, InsertLruNode(Shared, th[t], t))

DoStatLoad(t) == At(t, StatPcs) /\ ~th[t].loaded /\ Apply(t, StatLoad(Shared, th[t], t))

DoStatStore(t) == At(t, StatPcs) /\ th[t].loaded /\ Apply(t, StatStore(Shared, th[t], t))

DoTouchLRU(t) == At(t, {"touch"}) /\ Apply(t, TouchLRUStep(Shared, th[t], t))

DoEvictTestBytes(t) == At(t, {"ev_test"}) /\ Apply(t, EvictTestBytes(Shared, th[t], t))

DoEvictTestSize(t) == At(t, {"ev_test2"}) /\ Apply(t, EvictTestSize(Shared, th[t], t))

DoEvictLRUPick(t) == At(t, {"lru_pick"}) /\ Apply(t, EvictLRUPick(Shared, th[t], t))

DoEraseScan(t) == At(t, {"er_lock"}) /\ Apply(t, EraseScan(Shared, th[t], t))

DoRemoveEntryLru(t) == At(t, {"rm_lru"}) /\ Apply(t, RemoveEntryLru(Shared, th[t], t))

DoEvictFIFOScan(t) == At(t, {"fifo_scan"}) /\ Apply(t, EvictFIFOScan(Shared, th[t], t))

DoEvictRandom(t) ==
    At(t, {"rand_draw", "rand_lock"}) /\ Apply(t, StepOf(Shared, th[t], t))

DoRelockBlocks(t) ==
    /\ th[t].pc # "hung" /\ SelfRelock(Shared, th[t], t)
    /\ Apply(t, RelockBlocks(Shared, th[t], t))

DoRelockThrows(t) ==
    /\ th[t].pc # "hung" /\ SelfRelock(Shared, th[t], t)
    /\ Apply(t, RelockThrows(Shared, th[t], t))

Step(t) ==
    \/ DoGetScan(t)
    \/ DoUpdateOrInsertScan(t)
    \/ DoInsertIfAbsentScan(t)
    \/ DoUpdateScan(t)
    \/ DoInsertLruNode(t)
    \/ DoStatLoad(t)
    \/ DoStatStore(t)
    \/ DoTouchLRU(t)
    \/ DoEvictTestBytes(t)
    \/ DoEvictTestSize(t)
    \/ DoEvictLRUPick(t)
    \/ DoEraseScan(t)
    \/ DoRemoveEntryLru(t)
    \/ DoEvictFIFOScan(t)
    \/ DoEvictRandom(t)
    \/ DoRelockBlocks(t)
    \/ DoRelockThrows(t)

Next == \E t \in Threads : Call(t) \/ Step(t)

\* the single-threaded runs: only thread 1 acts
NextSeq == CallSeq(1) \/ Step(1)

\* parse_int's failure
NoInt == 0

\* a server thread that handles no request
NotHandling ==
    [pc |-> "idle", handler |-> "none", key |-> NoInt, value |-> "", previous |-> "nullopt",
     cache_removed |-> FALSE, status |-> 0]

\* no request served yet
NoRequest ==
    [handler |-> "none", key |-> NoInt, value |-> "", c |-> EmptyCache,
     store |-> [k \in Keys |-> "nullopt"], persist |-> "none"]

\* the cache used on its own, without a server; the server reaches persistence
\* through the PersistenceProvider interface, which shows no pool
InitNoServer ==
    /\ persistence_adapter = [k \in Keys |-> "nullopt"]
    /\ skip_preload = FALSE
    /\ listening = FALSE
    /\ res = 0
    /\ out = ""
    /\ req = NoRequest
    /\ free_conns = <<>>
    /\ handling = [t \in Threads |-> NotHandling]

InitCache(budgets) ==
    /\ policy_ \in Policies
    /\ maxBytes_ \in budgets
    /\ buckets_ = EmptyCache.buckets
    /\ mtx = EmptyCache.mtx
    /\ lruMutex_ = EmptyCache.lruMutex
    /\ lruList_ = EmptyCache.lruList
    /\ fifoCounter_ = EmptyCache.fifoCounter
    /\ stats_ = EmptyCache.stats
    /\ th = [t \in Threads |-> IdleLocal]
    /\ pre = NoCall
    /\ getsCalled = 0
    /\ evicted = 0
    /\ wrote = [t \in Threads |-> "nullopt"]

\* thread 1 makes up to MaxOps calls and every other thread one call fewer
Init == InitCache(ConcurrentBudgets) /\ InitNoServer /\ opsLeft = [t \in Threads |-> IF t = 1 THEN MaxOps ELSE MaxOps - 1]

Spec == Init /\ [][Next]_vars

\* one thread makes up to MaxSeqOps calls
InitSeq == InitCache(Budgets) /\ InitNoServer /\ opsLeft = [t \in Threads |-> IF t = 1 THEN MaxSeqOps ELSE 0]

SpecSeq == InitSeq /\ [][NextSeq]_vars

\* worker threads on disjoint keys: each calls the five operations on its own key
NextDisjoint == \E t \in Threads : CallDisjoint(t) \/ Step(t)

InitDisjoint ==
    /\ InitCache({DisjointBudget})
    /\ InitNoServer
    /\ opsLeft = [t \in Threads |-> IF t = 1 THEN MaxDisjointOps ELSE MaxDisjointOps - 1]

SpecDisjoint == InitDisjoint /\ [][NextDisjoint]_vars

\* the keys of the runs that store a negative key: -1 (bucket 1, as 2^64 - 1 is odd)
\* and a key of the other bucket
NegKeys == {-1, 2}
\* calls the single thread makes under SpecNeg
MaxNegOps == 3

\* a single-threaded call on one of NegKeys, recorded like CallSeq's
CallNeg(t) ==
    /\ th[t].pc = "idle"
    /\ opsLeft[t] > 0
    /\ \E op \in Ops, key \in NegKeys, value \in Values :
           /\ op \in {"get", "erase"} => value = "a"
           /\ th' = [th EXCEPT ![t] =
                        Enter(op, key, IF op \in WriteOps THEN value ELSE "")]
           /\ getsCalled' = IF op = "get" THEN getsCalled + 1 ELSE getsCalled
           /\ pre' = [op |-> op, key |-> key,
                      value |-> IF op \in WriteOps THEN value ELSE "",
                      c |-> Shared]
    /\ opsLeft' = [opsLeft EXCEPT ![t] = @ - 1]
    /\ UNCHANGED <<policy_, maxBytes_, buckets_, mtx, lruMutex_, lruList_, fifoCounter_,
                   stats_, evicted, wrote, serverVars>>

NextNeg == CallNeg(1) \/ Step(1)

\* one thread makes up to MaxNegOps calls on a cache whose budget two short entries fill
InitNeg ==
    /\ InitCache({ExactTwoBudget})
    /\ InitNoServer
    /\ opsLeft = [t \in Threads |-> IF t = 1 THEN MaxNegOps ELSE 0]

SpecNeg == InitNeg /\ [][NextNeg]_vars

(***************************************************************************)
(* KeyValueServer: one InlineCache in front of the kv_store table.  The    *)
(* requests are served one at a time by thread 1; every cache call of a    *)
(* handler runs to its end before the handler goes on.                     *)
(***************************************************************************)
\* requests served in one run
MaxRequests == 2

\* inline_cache(policy, 1ULL * 1024 * 1024 * 1024)
ServerMaxBytes == 1073741824

\* what a :key path parameter can be
KeyStrings == {"1", "2", "3", "notnum"}

\* parse_int: std::stoi over the whole string, NoInt when it returns false
ParseInt(s) ==
    CASE s = "1" -> 1
      [] s = "2" -> 2
      [] s = "3" -> 3
      [] OTHER -> NoInt

\* the ways the cache call op(key, value) of a handler ends: the cache it leaves and
\* what it returns
CacheCall(c, op, key, value) ==
    {[c |-> r.c, ret |-> r.l.ret] :
        r \in {q \in RunCall(c, op, key, value, 1) : q.l.pc = "idle"}}

\* PersistenceAdapter::insert: kv_insert is INSERT ... ON CONFLICT (key) DO UPDATE,
\* so it writes the row whether or not the key has one; a statement that fails
\* changes nothing and returns false
PersistInsert(store, key, value) ==
    {[ok |-> TRUE, store |-> [store EXCEPT ![key] = value]],
     [ok |-> FALSE, store |-> store]}

\* PersistenceAdapter::remove: true when a row was deleted; false when there was none
\* or the statement failed
PersistRemove(store, key) ==
    {[ok |-> FALSE, store |-> store]} \cup
    (IF store[key] # "nullopt"
     THEN {[ok |-> TRUE, store |-> [store EXCEPT ![key] = "nullopt"]]}
     ELSE {})

\* PersistenceAdapter::get: the row's value; nullptr when there is none or the
\* statement failed
PersistGet(store, key) == {store[key], "nullopt"}

\* preload_end, scaled down from 1000 to the largest key
PreloadEnd == CHOOSE k \in Keys : \A j \in Keys : j <= k

RECURSIVE Preload(_, _, _)
\* start()'s preload loop from key k on: every key whose row is read, and is not
\* empty, goes into the cache with insert_if_absent
Preload(c, store, k) ==
    IF k > PreloadEnd THEN {c}
    ELSE UNION {IF vptr # "nullopt" /\ vptr # ""
                THEN UNION {Preload(i.c, store, k + 1) :
                                i \in CacheCall(c, "insert_if_absent", k, vptr)}
                ELSE Preload(c, store, k + 1) : vptr \in PersistGet(store, k)}

\* the handler's answer when the :key parameter is not an integer
InvalidKeyFormat(c, store) == {[c |-> c, store |-> store, status |-> 400, gets |-> 0,
                                 persist |-> "none", value |-> ""]}

\* the same answer from the handlers that have put :value into out before they parse
\* the key
InvalidKeyValue(c, store, value_str) ==
    {[o EXCEPT !.value = value_str] : o \in InvalidKeyFormat(c, store)}

\* insertionHandler with the rollback of line 412 forgotten
insertionHandlerNoErase(c, store, key_str, value_str) ==
    LET key == ParseInt(key_str) IN
    IF key = NoInt THEN InvalidKeyValue(c, store, value_str)
    ELSE UNION {
        IF i.ret = "false"
        THEN {[c |-> g.c, store |-> store, status |-> 409, gets |-> 1,
               persist |-> "none", value |-> value_str] :
                  g \in CacheCall(i.c, "get", key, "")}
        ELSE UNION {
            IF ~p.ok
            THEN {[c |-> i.c, store |-> p.store, status |-> 500, gets |-> 0,
                   persist |-> "failed", value |-> value_str]}
            ELSE {[c |-> i.c, store |-> p.store, status |-> 201, gets |-> 0,
                   persist |-> "ok", value |-> value_str]} :
            p \in PersistInsert(store, key, value_str)} :
        i \in CacheCall(c, "insert_if_absent", key, value_str)}

\* insertionHandler, lines 377-422: the outcomes of POST /insert/:key/:value, each
\* with the cache and the table it leaves, the status it answers, the number of
\* inline_cache.get calls it made and how its call of the persistence layer went
insertionHandler(c, store, key_str, value_str) ==
    LET key == ParseInt(key_str) IN
    IF key = NoInt THEN InvalidKeyValue(c, store, value_str)
    ELSE UNION {
        IF i.ret = "false"
        THEN {[c |-> g.c, store |-> store, status |-> 409, gets |-> 1,
               persist |-> "none", value |-> value_str] :
                  g \in CacheCall(i.c, "get", key, "")}
        ELSE UNION {
            IF ~p.ok
            THEN {[c |-> e.c, store |-> p.store, status |-> 500, gets |-> 0,
                   persist |-> "failed", value |-> value_str] :
                      e \in CacheCall(i.c, "erase", key, "")}
            ELSE {[c |-> i.c, store |-> p.store, status |-> 201, gets |-> 0,
                   persist |-> "ok", value |-> value_str]} :
            p \in PersistInsert(store, key, value_str)} :
        i \in CacheCall(c, "insert_if_absent", key, value_str)}

\* getKeyHandler that answers from the table without putting the value into the cache
getKeyHandlerNoPopulate(c, store, key_str) ==
    LET key == ParseInt(key_str) IN
    IF key = NoInt THEN InvalidKeyFormat(c, store)
    ELSE UNION {
        IF v.ret # "nullopt"
        THEN {[c |-> v.c, store |-> store, status |-> 200, gets |-> 1,
               persist |-> "none", value |-> v.ret]}
        ELSE UNION {
            IF persisted # "nullopt"
            THEN {[c |-> v.c, store |-> store, status |-> 200, gets |-> 1,
                   persist |-> "ok", value |-> persisted]}
            ELSE {[c |-> v.c, store |-> store, status |-> 404, gets |-> 1,
                   persist |-> IF store[key] = "nullopt" THEN "ok" ELSE "failed",
                   value |-> ""]} :
            persisted \in PersistGet(store, key)} :
        v \in CacheCall(c, "get", key, "")}

\* getKeyHandler, lines 191-259: a cache hit answers 200; on a miss the row, if it
\* can be read, is put into the cache and answered with 200; otherwise 404
getKeyHandler(c, store, key_str) ==
    LET key == ParseInt(key_str) IN
    IF key = NoInt THEN InvalidKeyFormat(c, store)
    ELSE UNION {
        IF v.ret # "nullopt"
        THEN {[c |-> v.c, store |-> store, status |-> 200, gets |-> 1,
               persist |-> "none", value |-> v.ret]}
        ELSE UNION {
            IF persisted # "nullopt"
            THEN {[c |-> u.c, store |-> store, status |-> 200, gets |-> 1,
                   persist |-> "ok", value |-> persisted] :
                      u \in CacheCall(v.c, "update_or_insert", key, persisted)}
            ELSE {[c |-> v.c, store |-> store, status |-> 404, gets |-> 1,
                   persist |-> IF store[key] = "nullopt" THEN "ok" ELSE "failed",
                   value |-> ""]} :
            persisted \in PersistGet(store, key)} :
        v \in CacheCall(c, "get", key, "")}

\* deletionHandler with the restore of line 798 forgotten
deletionHandlerNoRestore(c, store, key_str) ==
    LET key == ParseInt(key_str) IN
    IF key = NoInt THEN InvalidKeyFormat(c, store)
    ELSE UNION {UNION {UNION {
        IF ~p.ok /\ e.ret = "true"
        THEN IF previous.ret # "nullopt"
             THEN {[c |-> e.c, store |-> p.store, status |-> 500, gets |-> 1,
                    persist |-> IF p.ok \/ store[key] = "nullopt" THEN "ok" ELSE "failed",
                    value |-> ""]}
             ELSE {[c |-> e.c, store |-> p.store, status |-> 500, gets |-> 1,
                    persist |-> IF p.ok \/ store[key] = "nullopt" THEN "ok" ELSE "failed",
                    value |-> ""]}
        ELSE IF e.ret = "true" \/ p.ok
             THEN {[c |-> e.c, store |-> p.store, status |-> 204, gets |-> 1,
                    persist |-> IF p.ok \/ store[key] = "nullopt" THEN "ok" ELSE "failed",
                    value |-> ""]}
             ELSE {[c |-> e.c, store |-> p.store, status |-> 404, gets |-> 1,
                    persist |-> IF p.ok \/ store[key] = "nullopt" THEN "ok" ELSE "failed",
                    value |-> ""]} :
        p \in PersistRemove(store, key)} :
        e \in CacheCall(previous.c, "erase", key, "")} :
        previous \in CacheCall(c, "get", key, "")}

\* deletionHandler, lines 762-817: erase from the cache, delete the row; when the
\* cache held the key and no row was deleted the cached value is put back and the
\* answer is 500.  persist tells whether the delete statement failed on a row that
\* is there
deletionHandler(c, store, key_str) ==
    LET key == ParseInt(key_str) IN
    IF key = NoInt THEN InvalidKeyFormat(c, store)
    ELSE UNION {UNION {UNION {
        IF ~p.ok /\ e.ret = "true"
        THEN IF previous.ret # "nullopt"
             THEN {[c |-> u.c, store |-> p.store, status |-> 500, gets |-> 1,
                    persist |-> IF p.ok \/ store[key] = "nullopt" THEN "ok" ELSE "failed",
                    value |-> ""] :
                       u \in CacheCall(e.c, "update_or_insert", key, previous.ret)}
             ELSE {[c |-> e.c, store |-> p.store, status |-> 500, gets |-> 1,
                    persist |-> IF p.ok \/ store[key] = "nullopt" THEN "ok" ELSE "failed",
                    value |-> ""]}
        ELSE IF e.ret = "true" \/ p.ok
             THEN {[c |-> e.c, store |-> p.store, status |-> 204, gets |-> 1,
                    persist |-> IF p.ok \/ store[key] = "nullopt" THEN "ok" ELSE "failed",
                    value |-> ""]}
             ELSE {[c |-> e.c, store |-> p.store, status |-> 404, gets |-> 1,
                    persist |-> IF p.ok \/ store[key] = "nullopt" THEN "ok" ELSE "failed",
                    value |-> ""]} :
        p \in PersistRemove(store, key)} :
        e \in CacheCall(previous.c, "erase", key, "")} :
        previous \in CacheCall(c, "get", key, "")}

\* PersistenceAdapter::update: true when a row was updated; false when there was none
\* or the statement failed
PersistUpdate(store, key, value) ==
    {[ok |-> FALSE, store |-> store]} \cup
    (IF store[key] # "nullopt"
     THEN {[ok |-> TRUE, store |-> [store EXCEPT ![key] = value]]}
     ELSE {})

\* UpdateBoth with the rollback of line 880 forgotten
UpdateBothNoRollback(c, store, key, value_str, previous, gets, read) ==
    UNION {
        IF u.ret # "true"
        THEN {[c |-> u.c, store |-> store, status |-> 404, gets |-> gets,
               persist |-> read, value |-> value_str]}
        ELSE UNION {
            IF ~p.ok
            THEN {[c |-> u.c, store |-> p.store, status |-> 500, gets |-> gets,
                   persist |-> "failed", value |-> value_str]}
            ELSE {[c |-> u.c, store |-> p.store, status |-> 200, gets |-> gets,
                   persist |-> "ok", value |-> value_str]} :
            p \in PersistUpdate(store, key, value_str)} :
        u \in CacheCall(c, "update", key, value_str)}

\* updationHandler, lines 863-891, once previous is known: update the cache, then the
\* row; when no row was updated the cache gets previous back and the answer is 500.
\* gets counts the inline_cache.get calls made so far, read whether the row was read
UpdateBoth(c, store, key, value_str, previous, gets, read) ==
    UNION {
        IF u.ret # "true"
        THEN {[c |-> u.c, store |-> store, status |-> 404, gets |-> gets,
               persist |-> read, value |-> value_str]}
        ELSE UNION {
            IF ~p.ok
            THEN {[c |-> b.c, store |-> p.store, status |-> 500, gets |-> gets,
                   persist |-> "failed", value |-> value_str] :
                      b \in CacheCall(u.c, "update", key, previous)}
            ELSE {[c |-> u.c, store |-> p.store, status |-> 200, gets |-> gets,
                   persist |-> "ok", value |-> value_str]} :
            p \in PersistUpdate(store, key, value_str)} :
        u \in CacheCall(c, "update", key, value_str)}

\* updationHandler, lines 819-893: a key the cache does not hold is first read from
\* the table and put into the cache; a key in neither answers 404
updationHandler(c, store, key_str, value_str) ==
    LET key == ParseInt(key_str) IN
    IF key = NoInt THEN InvalidKeyValue(c, store, value_str)
    ELSE UNION {
        IF previous.ret # "nullopt"
        THEN UpdateBoth(previous.c, store, key, value_str, previous.ret, 1, "none")
        ELSE UNION {
            IF persisted # "nullopt"
            THEN UNION {UNION {
                     UpdateBoth(g.c, store, key, value_str, g.ret, 2, "ok") :
                         g \in CacheCall(h.c, "get", key, "")} :
                     h \in CacheCall(previous.c, "update_or_insert", key, persisted)}
            ELSE {[c |-> previous.c, store |-> store, status |-> 404, gets |-> 1,
                   persist |-> IF store[key] = "nullopt" THEN "ok" ELSE "failed",
                   value |-> value_str]} :
            persisted \in PersistGet(store, key)} :
        previous \in CacheCall(c, "get", key, "")}

\* the cache becomes c
SetCache(c) ==
    /\ buckets_' = c.buckets
    /\ mtx' = c.mtx
    /\ lruMutex_' = c.lruMutex
    /\ lruList_' = c.lruList
    /\ fifoCounter_' = c.fifoCounter
    /\ stats_' = c.stats

\* start(), lines 979-1011: the preload unless it is skipped, then listen
Start ==
    /\ ~listening
    /\ \E c \in (IF skip_preload THEN {Shared}
                 ELSE Preload(Shared, persistence_adapter, 1)) : SetCache(c)
    /\ listening' = TRUE
    /\ UNCHANGED <<policy_, maxBytes_, th, opsLeft, pre, getsCalled, evicted, wrote,
                   persistence_adapter, skip_preload, res, out, req, free_conns, handling>>

\* one request is served: one of the handler's outcomes becomes the state
Serve(handler, key_str, value_str, outcomes) ==
    /\ listening
    /\ opsLeft[1] > 0
    /\ \E o \in outcomes :
           /\ SetCache(o.c)
           /\ persistence_adapter' = o.store
           /\ res' = o.status
           /\ out' = o.value
           /\ getsCalled' = getsCalled + o.gets
           /\ req' = [handler |-> handler, key |-> ParseInt(key_str),
                      value |-> value_str, c |-> Shared, store |-> persistence_adapter,
                      persist |-> o.persist]
    /\ opsLeft' = [opsLeft EXCEPT ![1] = @ - 1]
    /\ UNCHANGED <<policy_, maxBytes_, th, pre, evicted, wrote, skip_preload, listening,
                   free_conns, handling>>

\* POST /insert/:key/:value
PostInsert ==
    \E key_str \in KeyStrings, value_str \in Values :
        Serve("insert", key_str, value_str,
              insertionHandler(Shared, persistence_adapter, key_str, value_str))

\* GET /get_key/:key_id
GetKey ==
    \E key_str \in KeyStrings :
        Serve("get_key", key_str, "", getKeyHandler(Shared, persistence_adapter, key_str))

\* DELETE /delete_key/:key
DeleteKey ==
    \E key_str \in KeyStrings :
        Serve("delete_key", key_str, "",
              deletionHandler(Shared, persistence_adapter, key_str))

\* PUT /update_key/:key/:value
UpdateKey ==
    \E key_str \in KeyStrings, value_str \in Values :
        Serve("update_key", key_str, value_str,
              updationHandler(Shared, persistence_adapter, key_str, value_str))

NextServer == Start \/ PostInsert \/ GetKey \/ DeleteKey \/ UpdateKey

\* the server after construction: an empty cache of 1 GiB in front of a table that
\* holds any rows
InitServer ==
    /\ InitCache({ServerMaxBytes})
    /\ persistence_adapter \in [Keys -> Values \cup {"nullopt"}]
    /\ skip_preload \in BOOLEAN
    /\ listening = FALSE
    /\ res = 0
    /\ out = ""
    /\ req = NoRequest
    /\ free_conns = <<>>
    /\ handling = [t \in Threads |-> NotHandling]
    /\ opsLeft = [t \in Threads |-> IF t = 1 THEN MaxRequests ELSE 0]

SpecServer == InitServer /\ [][NextServer]_vars

(***************************************************************************)
(* POST /bulk_update.  An operation is [type, key, value]; a result entry  *)
(* is [op, key, status, value].  Every outcome carries silent: a           *)
(* persistence call that is not the statement of an operation (a read, an  *)
(* undo step, BEGIN) failed on the way.                                    *)
(***************************************************************************)
\* entry["status"]
ResultEntry(op, status, value) ==
    [op |-> op.type, key |-> op.key, status |-> status, value |-> value]

\* a read of key that came back as v failed: the row is there
ReadFailed(store, key, v) == v = "nullopt" /\ store[key] # "nullopt"

RECURSIVE RunUndo(_, _, _)
\* lines 703-705: the undo closures, last pushed first; their results are not looked at
RunUndo(store, undo, silent) ==
    IF undo = <<>> THEN {[store |-> store, silent |-> silent]}
    ELSE LET u == Head(undo)
             ps == CASE u.type = "insert" -> PersistInsert(store, u.key, u.value)
                     [] u.type = "update" -> PersistUpdate(store, u.key, u.value)
                     [] u.type = "remove" -> PersistRemove(store, u.key)
         IN  UNION {RunUndo(p.store, Tail(undo),
                            silent \/ (~p.ok /\ (u.type = "insert" \/ store[u.key] # "nullopt"))) :
                        p \in ps}

\* EmulatedFail with the undo closures never run
EmulatedFailNoUndo(store, op, undo, results, silent) ==
    {[store |-> store, success |-> FALSE,
      results |-> Append(results, ResultEntry(op, "failed", "")), silent |-> silent]}

\* lines 697-707: the operation failed; its entry closes the results and the undo
\* closures run
EmulatedFail(store, op, undo, results, silent) ==
    {[store |-> r.store, success |-> FALSE,
      results |-> Append(results, ResultEntry(op, "failed", "")), silent |-> r.silent] :
        r \in RunUndo(store, undo, silent)}

RECURSIVE EmulatedTransaction(_, _, _, _, _, _)
\* lines 630-718, the loop from operation i on: each operation reads the row, writes,
\* and pushes the closure that takes its write back
EmulatedTransaction(store, ops, i, undo, results, silent) ==
    IF i > Len(ops)
    THEN {[store |-> store, success |-> TRUE, results |-> results, silent |-> silent]}
    ELSE LET op == ops[i] IN
         UNION {
            LET s1 == silent \/ ReadFailed(store, op.key, previous)
            IN  CASE op.type = "insert" ->
                     UNION {IF ~p.ok THEN EmulatedFail(store, op, undo, results, s1)
                            ELSE EmulatedTransaction(
                                     p.store, ops, i + 1,
                                     <<[type |-> IF previous # "nullopt" THEN "insert"
                                                 ELSE "remove",
                                        key |-> op.key, value |-> previous]>> \o undo,
                                     Append(results, ResultEntry(op, "ok", "")), s1) :
                                p \in PersistInsert(store, op.key, op.value)}
                  [] op.type \in {"update", "delete"} ->
                     IF previous = "nullopt"
                     THEN EmulatedFail(store, op, undo, results, s1)
                     ELSE UNION {IF ~p.ok THEN EmulatedFail(store, op, undo, results, s1)
                                 ELSE EmulatedTransaction(
                                          p.store, ops, i + 1,
                                          <<[type |-> IF op.type = "update" THEN "update"
                                                      ELSE "insert",
                                             key |-> op.key, value |-> previous]>> \o undo,
                                          Append(results, ResultEntry(op, "ok", "")), s1) :
                                     p \in IF op.type = "update"
                                           THEN PersistUpdate(store, op.key, op.value)
                                           ELSE PersistRemove(store, op.key)}
                  [] op.type = "get" ->
                     EmulatedTransaction(store, ops, i + 1, undo,
                                         Append(results, ResultEntry(op, "ok", previous)),
                                         s1) :
            previous \in PersistGet(store, op.key)}

RECURSIVE RunTransactionJson(_, _, _, _, _)
\* PersistenceAdapter::runTransactionJson in RollbackOnError mode, after BEGIN on
\* p_->conn, from operation i on: tx is the table as the transaction sees it;
\* the first failed statement ends it with ROLLBACK, COMMIT makes tx the table
RunTransactionJson(store, tx, ops, i, results) ==
    IF i > Len(ops)
    THEN {[store |-> tx, success |-> TRUE, results |-> results, silent |-> FALSE],
          [store |-> store, success |-> FALSE, results |-> results, silent |-> FALSE]}
    ELSE LET op == ops[i]
             failed == [store |-> store, success |-> FALSE,
                        results |-> Append(results, ResultEntry(op, "failed", "")),
                        silent |-> FALSE]
         IN  IF op.type = "get"
             THEN {failed} \cup
                  RunTransactionJson(store, tx, ops, i + 1,
                                     Append(results, ResultEntry(op, "ok", tx[op.key])))
             ELSE UNION {IF ~p.ok THEN {failed}
                         ELSE RunTransactionJson(store, p.store, ops, i + 1,
                                                 Append(results, ResultEntry(op, "ok", ""))) :
                             p \in CASE op.type = "insert" ->
                                            PersistInsert(tx, op.key, op.value)
                                     [] op.type = "update" ->
                                            PersistUpdate(tx, op.key, op.value)
                                     [] op.type = "delete" -> PersistRemove(tx, op.key)}

\* the transaction of lines 592-718: through runTransactionJsonAsync when the build
\* has USE_PG and the provider is the PersistenceAdapter (a failed BEGIN gives one
\* failed entry with key 0), or emulated on the provider
BulkTransaction(store, ops) ==
    RunTransactionJson(store, store, ops, 1, <<>>) \cup
    {[store |-> store, success |-> FALSE,
      results |-> <<[op |-> ops[1].type, key |-> 0, status |-> "failed", value |-> ""]>>,
      silent |-> TRUE]} \cup
    EmulatedTransaction(store, ops, 1, <<>>, <<>>, FALSE)

RECURSIVE SyncCache(_, _, _, _, _)
\* lines 735-757: after a successful transaction the operations are replayed on the
\* cache, a get with the row as it is now
SyncCache(c, store, ops, i, silent) ==
    IF i > Len(ops) THEN {[c |-> c, silent |-> silent]}
    ELSE LET op == ops[i] IN
         CASE op.type \in {"insert", "update"} ->
                  UNION {SyncCache(u.c, store, ops, i + 1, silent) :
                             u \in CacheCall(c, "update_or_insert", op.key, op.value)}
           [] op.type = "delete" ->
                  UNION {SyncCache(e.c, store, ops, i + 1, silent) :
                             e \in CacheCall(c, "erase", op.key, "")}
           [] op.type = "get" ->
                  UNION {UNION {SyncCache(x.c, store, ops, i + 1,
                                          silent \/ ReadFailed(store, op.key, fresh)) :
                                    x \in IF fresh # "nullopt"
                                          THEN CacheCall(c, "update_or_insert", op.key, fresh)
                                          ELSE CacheCall(c, "erase", op.key, "")} :
                             fresh \in PersistGet(store, op.key)}

\* what finalize puts into the response
BulkReport(success, results) == [success |-> success, results |-> results]

\* an operation entry the handler rejects: its "operation" is none of insert, update,
\* delete, remove, get
Unsupported(op) == op.type \notin {"insert", "update", "delete", "get"}

\* bulkUpdateHandler with the cache synchronisation left out
bulkUpdateHandlerNoSync(c, store, ops) ==
    IF ops = <<>> \/ \E i \in 1 .. Len(ops) : Unsupported(ops[i])
    THEN {[c |-> c, store |-> store, status |-> 200, gets |-> 0, persist |-> "none",
           value |-> BulkReport(FALSE, <<>>)]}
    ELSE {[c |-> c, store |-> t.store, status |-> 200, gets |-> 0,
           persist |-> IF t.silent THEN "failed" ELSE "ok",
           value |-> BulkReport(t.success, t.results)] :
              t \in BulkTransaction(store, ops)}

\* bulkUpdateHandler, lines 425-760: a request with an invalid entry, or with none,
\* is not executed; otherwise the transaction, and the cache synchronisation when
\* it succeeded
bulkUpdateHandler(c, store, ops) ==
    IF ops = <<>> \/ \E i \in 1 .. Len(ops) : Unsupported(ops[i])
    THEN {[c |-> c, store |-> store, status |-> 200, gets |-> 0, persist |-> "none",
           value |-> BulkReport(FALSE, <<>>)]}
    ELSE UNION {
        IF ~t.success
        THEN {[c |-> c, store |-> t.store, status |-> 200, gets |-> 0,
               persist |-> IF t.silent THEN "failed" ELSE "ok",
               value |-> BulkReport(FALSE, t.results)]}
        ELSE {[c |-> s.c, store |-> t.store, status |-> 200, gets |-> 0,
               persist |-> IF s.silent THEN "failed" ELSE "ok",
               value |-> BulkReport(TRUE, t.results)] :
                  s \in SyncCache(c, t.store, ops, 1, t.silent)} :
        t \in BulkTransaction(store, ops)}

MaxBulkOps == 2
BulkKeys == Keys

\* the operation entries of the requests: the four operations on a key, and an entry
\* with an operation the handler does not know
BulkOps ==
    {[type |-> ty, key |-> k, value |-> v] :
         ty \in {"insert", "update"}, k \in BulkKeys, v \in Values} \cup
    {[type |-> ty, key |-> k, value |-> ""] : ty \in {"delete", "get"}, k \in BulkKeys} \cup
    {[type |-> "upsert", key |-> 1, value |-> ""]}

BulkRequests == UNION {[1 .. n -> BulkOps] : n \in 0 .. MaxBulkOps}

\* POST /bulk_update
BulkUpdate ==
    /\ listening
    /\ opsLeft[1] > 0
    /\ \E ops \in BulkRequests :
           \E o \in bulkUpdateHandler(Shared, persistence_adapter, ops) :
               /\ SetCache(o.c)
               /\ persistence_adapter' = o.store
               /\ res' = o.status
               /\ out' = o.value
               /\ req' = [handler |-> "bulk_update", key |-> NoInt, value |-> ops,
                          c |-> Shared, store |-> persistence_adapter,
                          persist |-> o.persist]
    /\ opsLeft' = [opsLeft EXCEPT ![1] = @ - 1]
    /\ UNCHANGED <<policy_, maxBytes_, th, pre, getsCalled, evicted, wrote, skip_preload,
                   listening, free_conns, handling>>

NextBulk == Start \/ BulkUpdate

\* the server of InitServer with one bulk request to come
InitBulk ==
    /\ InitCache({ServerMaxBytes})
    /\ persistence_adapter \in [Keys -> Values \cup {"nullopt"}]
    /\ skip_preload \in BOOLEAN
    /\ listening = FALSE
    /\ res = 0
    /\ out = ""
    /\ req = NoRequest
    /\ free_conns = <<>>
    /\ handling = [t \in Threads |-> NotHandling]
    /\ opsLeft = [t \in Threads |-> IF t = 1 THEN 1 ELSE 0]

SpecBulk == InitBulk /\ [][NextBulk]_vars

(***************************************************************************)
(* PersistenceAdapter on its own: the kv_store table and the pool of       *)
(* connections.  Every call borrows the front of free_conns and pushes the *)
(* connection back at the end; a statement sent on a connection on which   *)
(* no transaction is open is committed at once.                            *)
(***************************************************************************)
\* pool_size, scaled down from the default of 8
MaxPoolSize == 2
MaxAdapterCalls == 2
MaxTxOps == 2
\* p_->conn, the first connection of the pool
Master == 1
AdapterKeys == {1, 2}

\* free_conns after the borrowed front has been pushed back
Returned(pool) == Append(Tail(pool), Head(pool))

\* one call of insert, update, remove or get: borrow, one statement, return
AdapterCall(handler, key, value, outcomes) ==
    /\ free_conns # <<>>
    /\ opsLeft[1] > 0
    /\ \E o \in outcomes :
           /\ persistence_adapter' = o.store
           /\ out' = o.value
           /\ req' = [handler |-> handler, key |-> key, value |-> value, c |-> Shared,
                      store |-> persistence_adapter, persist |-> "none"]
    /\ free_conns' = Returned(free_conns)
    /\ opsLeft' = [opsLeft EXCEPT ![1] = @ - 1]
    /\ UNCHANGED <<policy_, maxBytes_, buckets_, mtx, lruMutex_, lruList_, fifoCounter_,
                   stats_, th, pre, getsCalled, evicted, wrote, skip_preload, listening,
                   res, handling>>

AdapterInsert ==
    \E key \in AdapterKeys, value \in Values :
        AdapterCall("insert", key, value,
                    {[store |-> p.store, value |-> p.ok] :
                         p \in PersistInsert(persistence_adapter, key, value)})

AdapterUpdate ==
    \E key \in AdapterKeys, value \in Values :
        AdapterCall("update", key, value,
                    {[store |-> p.store, value |-> p.ok] :
                         p \in PersistUpdate(persistence_adapter, key, value)})

AdapterRemove ==
    \E key \in AdapterKeys :
        AdapterCall("remove", key, "",
                    {[store |-> p.store, value |-> p.ok] :
                         p \in PersistRemove(persistence_adapter, key)})

AdapterGet ==
    \E key \in AdapterKeys :
        AdapterCall("get", key, "",
                    {[store |-> persistence_adapter, value |-> v] :
                         v \in PersistGet(persistence_adapter, key)})

\* the table after ROLLBACK on conn: the statements went to p_->conn, so they are
\* taken back only when conn is that connection
RolledBack(table, cur, conn) == IF conn = Master THEN table ELSE cur

RECURSIVE RollbackOnError(_, _, _, _, _)
\* runTransaction's loop in RollbackOnError mode from operation i on, lines 429-469:
\* table is the table at BEGIN, cur the table with the statements sent so far; a
\* get operation sends nothing; the paths that end in success false before COMMIT
\* do not return the connection
RollbackOnError(table, cur, ops, i, conn) ==
    IF i > Len(ops)
    THEN {[store |-> cur, success |-> TRUE, returned |-> TRUE],
          [store |-> RolledBack(table, cur, conn), success |-> FALSE, returned |-> TRUE]}
    ELSE LET op == ops[i] IN
         IF op.type = "get" THEN RollbackOnError(table, cur, ops, i + 1, conn)
         ELSE UNION {IF ~p.ok
                     THEN {[store |-> RolledBack(table, cur, conn), success |-> FALSE,
                            returned |-> FALSE]}
                     ELSE RollbackOnError(table, p.store, ops, i + 1, conn) :
                         p \in CASE op.type = "insert" -> PersistInsert(cur, op.key, op.value)
                                 [] op.type = "update" -> PersistUpdate(cur, op.key, op.value)
                                 [] op.type = "delete" -> PersistRemove(cur, op.key)}

\* PersistenceAdapter::runTransaction(ops, RollbackOnError) on the borrowed conn
runTransaction(table, ops, conn) ==
    {[store |-> table, success |-> FALSE, returned |-> FALSE]} \cup
    RollbackOnError(table, table, ops, 1, conn)

TxOps ==
    {[type |-> ty, key |-> k, value |-> v] :
         ty \in {"insert", "update"}, k \in AdapterKeys, v \in Values} \cup
    {[type |-> ty, key |-> k, value |-> ""] : ty \in {"delete", "get"}, k \in AdapterKeys}

TxRequests == UNION {[1 .. n -> TxOps] : n \in 0 .. MaxTxOps}

RunTransaction ==
    /\ free_conns # <<>>
    /\ opsLeft[1] > 0
    /\ \E ops \in TxRequests :
           \E o \in runTransaction(persistence_adapter, ops, Head(free_conns)) :
               /\ persistence_adapter' = o.store
               /\ out' = o.success
               /\ free_conns' = IF o.returned THEN Returned(free_conns)
                                ELSE Tail(free_conns)
               /\ req' = [handler |-> "runTransaction", key |-> Head(free_conns),
                          value |-> ops, c |-> Shared, store |-> persistence_adapter,
                          persist |-> "none"]
    /\ opsLeft' = [opsLeft EXCEPT ![1] = @ - 1]
    /\ UNCHANGED <<policy_, maxBytes_, buckets_, mtx, lruMutex_, lruList_, fifoCounter_,
                   stats_, th, pre, getsCalled, evicted, wrote, skip_preload, listening,
                   res, handling>>

NextAdapter ==
    AdapterInsert \/ AdapterUpdate \/ AdapterRemove \/ AdapterGet \/ RunTransaction

\* the adapter after construction: a table with any rows, and a pool whose first
\* connection is p_->conn
InitAdapter ==
    /\ policy_ = "LRU"
    /\ maxBytes_ = ServerMaxBytes
    /\ buckets_ = EmptyCache.buckets
    /\ mtx = EmptyCache.mtx
    /\ lruMutex_ = EmptyCache.lruMutex
    /\ lruList_ = EmptyCache.lruList
    /\ fifoCounter_ = EmptyCache.fifoCounter
    /\ stats_ = EmptyCache.stats
    /\ th = [t \in Threads |-> IdleLocal]
    /\ pre = NoCall
    /\ getsCalled = 0
    /\ evicted = 0
    /\ wrote = [t \in Threads |-> "nullopt"]
    /\ persistence_adapter \in
           {s \in [Keys -> Values \cup {"nullopt"}] :
                \A k \in Keys \ AdapterKeys : s[k] = "nullopt"}
    /\ skip_preload = FALSE
    /\ listening = FALSE
    /\ res = 0
    /\ out = ""
    /\ req = NoRequest
    /\ handling = [t \in Threads |-> NotHandling]
    /\ free_conns \in {SubSeq(<<1, 2, 3, 4, 5, 6, 7, 8>>, 1, n) : n \in 1 .. MaxPoolSize}
    /\ opsLeft = [t \in Threads |-> IF t = 1 THEN MaxAdapterCalls ELSE 0]

SpecAdapter == InitAdapter /\ [][NextAdapter]_vars

(***************************************************************************)
(* PersistenceAdapter's connections under concurrency.  Request threads    *)
(* and worker threads call get, insert, update, remove, runTransaction and *)
(* runTransactionJson; a call is a borrow from free_conns (except in       *)
(* runTransactionJson, which borrows nothing), its statements one by one,  *)
(* each a send on a connection and the result received from it, and the    *)
(* push back.  What the statements do to the table plays no part here.     *)
(***************************************************************************)
\* calls each thread makes under SpecPool
MaxPoolCalls == 2

SimpleCalls == {"get", "insert", "update", "remove"}

\* a thread outside any adapter call: conn is the connection it has borrowed, on the
\* connection its statement in flight was sent on (0 for none), left the operations
\* of its transaction still to run
NoCallOnPool == [pc |-> "idle", handler |-> "none", conn |-> 0, on |-> 0, left |-> 0]

\* the connection the statement at h.pc is sent on: conn in insert, update, remove and
\* get (lines 213, 241, 272, 305) and for runTransaction's BEGIN, ROLLBACK and COMMIT
\* (exec_simple, line 345); p_->conn for the operations of runTransaction (lines
\* 389-411, 434-453) and for every statement of runTransactionJson (lines 544, 571-645)
StatementConn(h) ==
    IF h.handler = "runTransactionJson" THEN Master
    ELSE IF h.handler = "runTransaction" /\ h.pc = "op" THEN Master
    ELSE h.conn

\* insert, update, remove, get or runTransaction is entered: wait until free_conns is
\* not empty and pop its front
Borrow(t) ==
    /\ handling[t].pc = "idle"
    /\ opsLeft[t] > 0
    /\ free_conns # <<>>
    /\ \E handler \in SimpleCalls \cup {"runTransaction"}, n \in 0 .. MaxTxOps :
           /\ handler \in SimpleCalls => n = 0
           /\ handling' = [handling EXCEPT ![t] =
                               [pc |-> IF handler \in SimpleCalls THEN "stmt" ELSE "begin",
                                handler |-> handler, conn |-> Head(free_conns), on |-> 0,
                                left |-> n]]
    /\ free_conns' = Tail(free_conns)
    /\ opsLeft' = [opsLeft EXCEPT ![t] = @ - 1]
    /\ UNCHANGED <<policy_, maxBytes_, buckets_, mtx, lruMutex_, lruList_, fifoCounter_,
                   stats_, th, pre, getsCalled, evicted, wrote, persistence_adapter,
                   skip_preload, listening, res, out, req>>

\* a worker takes a task of runTransactionJsonAsync and enters runTransactionJson,
\* which touches neither pool_mtx nor free_conns
EnterTransactionJson(t) ==
    /\ handling[t].pc = "idle"
    /\ opsLeft[t] > 0
    /\ \E n \in 0 .. MaxTxOps :
           handling' = [handling EXCEPT ![t] =
                            [pc |-> "begin", handler |-> "runTransactionJson", conn |-> 0,
                             on |-> 0, left |-> n]]
    /\ opsLeft' = [opsLeft EXCEPT ![t] = @ - 1]
    /\ UNCHANGED <<policy_, maxBytes_, buckets_, mtx, lruMutex_, lruList_, fifoCounter_,
                   stats_, th, pre, getsCalled, evicted, wrote, persistence_adapter,
                   skip_preload, listening, res, out, req, free_conns>>

\* PQexec / PQexecPrepared is called: the statement goes out on its connection
Send(t) ==
    /\ handling[t].pc \in {"stmt", "begin", "op", "rollback", "commit"}
    /\ handling[t].on = 0
    /\ handling' = [handling EXCEPT ![t].on = StatementConn(handling[t])]
    /\ UNCHANGED <<policy_, maxBytes_, buckets_, mtx, lruMutex_, lruList_, fifoCounter_,
                   stats_, th, opsLeft, pre, getsCalled, evicted, wrote,
                   persistence_adapter, skip_preload, listening, res, out, req,
                   free_conns>>

\* where the call goes after the statement at h.pc, by its result
AfterStatement(h, ok) ==
    CASE h.pc = "stmt" -> [h EXCEPT !.pc = "return", !.on = 0]
      [] h.pc = "begin" /\ ~ok -> NoCallOnPool
      [] h.pc = "begin" /\ ok ->
            [h EXCEPT !.pc = IF h.left = 0 THEN "commit" ELSE "op", !.on = 0]
      [] h.pc = "op" /\ ~ok -> [h EXCEPT !.pc = "rollback", !.on = 0]
      [] h.pc = "op" /\ ok ->
            [h EXCEPT !.pc = IF h.left = 1 THEN "commit" ELSE "op", !.left = @ - 1,
                      !.on = 0]
      [] h.pc = "rollback" -> NoCallOnPool
      [] h.pc = "commit" ->
            IF h.handler = "runTransaction" THEN [h EXCEPT !.pc = "return", !.on = 0]
            ELSE NoCallOnPool

\* the call returns from PQexec / PQexecPrepared with the statement's result; after a
\* failed BEGIN and after ROLLBACK runTransaction returns to its caller at once
Receive(t) ==
    /\ handling[t].on # 0
    /\ \E ok \in BOOLEAN :
           handling' = [handling EXCEPT ![t] = AfterStatement(handling[t], ok)]
    /\ UNCHANGED <<policy_, maxBytes_, buckets_, mtx, lruMutex_, lruList_, fifoCounter_,
                   stats_, th, opsLeft, pre, getsCalled, evicted, wrote,
                   persistence_adapter, skip_preload, listening, res, out, req,
                   free_conns>>

\* free_conns.push(conn) at the end of insert, update, remove, get and runTransaction
GiveBack(t) ==
    /\ handling[t].pc = "return"
    /\ free_conns' = Append(free_conns, handling[t].conn)
    /\ handling' = [handling EXCEPT ![t] = NoCallOnPool]
    /\ UNCHANGED <<policy_, maxBytes_, buckets_, mtx, lruMutex_, lruList_, fifoCounter_,
                   stats_, th, opsLeft, pre, getsCalled, evicted, wrote,
                   persistence_adapter, skip_preload, listening, res, out, req>>

NextPool ==
    \E t \in Threads :
        Borrow(t) \/ EnterTransactionJson(t) \/ Send(t) \/ Receive(t) \/ GiveBack(t)

\* the adapter after construction, the pool full, no call running
InitPool ==
    /\ InitCache({ServerMaxBytes})
    /\ persistence_adapter = [k \in Keys |-> "nullopt"]
    /\ skip_preload = FALSE
    /\ listening = FALSE
    /\ res = 0
    /\ out = ""
    /\ req = NoRequest
    /\ handling = [t \in Threads |-> NoCallOnPool]
    /\ free_conns \in {SubSeq(<<1, 2, 3, 4, 5, 6, 7, 8>>, 1, n) : n \in 1 .. MaxPoolSize}
    /\ opsLeft = [t \in Threads |-> MaxPoolCalls]

SpecPool == InitPool /\ [][NextPool]_vars

(***************************************************************************)
(* The server with its handlers running concurrently, one request per      *)
(* thread, on a provider that never fails.  A step of a handler is one     *)
(* call of the cache or of the provider: the 1 GiB budget keeps the calls  *)
(* of the cache away from eviction, so each of them runs under its shard   *)
(* lock from start to end, and each provider call is one statement.        *)
(***************************************************************************)
\* the outcomes of a provider call when no statement fails: false is returned only
\* for an update or a remove that finds no row
Reliable(outcomes) ==
    IF \E p \in outcomes : p.ok THEN {p \in outcomes : p.ok} ELSE outcomes

\* the handler's locals once the response with this status is sent
Responded(h, status) == [h EXCEPT !.pc = "done", !.status = status]

\* getKeyHandler, lines 210-258, one call at a time
GetKeySteps(c, store, h) ==
    CASE h.pc = "get_cache" ->
             {IF v.ret # "nullopt"
              THEN [c |-> v.c, store |-> store, h |-> Responded(h, 200)]
              ELSE [c |-> v.c, store |-> store, h |-> [h EXCEPT !.pc = "get_persisted"]] :
                  v \in CacheCall(c, "get", h.key, "")}
      [] h.pc = "get_persisted" ->
             {IF store[h.key] # "nullopt"
              THEN [c |-> c, store |-> store,
                    h |-> [h EXCEPT !.pc = "get_populate", !.previous = store[h.key]]]
              ELSE [c |-> c, store |-> store, h |-> Responded(h, 404)]}
      [] h.pc = "get_populate" ->
             {[c |-> u.c, store |-> store, h |-> Responded(h, 200)] :
                  u \in CacheCall(c, "update_or_insert", h.key, h.previous)}

\* insertionHandler, lines 400-421, one call at a time
InsertionSteps(c, store, h) ==
    CASE h.pc = "ins_cache" ->
             {[c |-> i.c, store |-> store,
               h |-> [h EXCEPT !.pc = IF i.ret = "true" THEN "ins_persist"
                                      ELSE "ins_existing"]] :
                  i \in CacheCall(c, "insert_if_absent", h.key, h.value)}
      [] h.pc = "ins_existing" ->
             {[c |-> v.c, store |-> store, h |-> Responded(h, 409)] :
                  v \in CacheCall(c, "get", h.key, "")}
      [] h.pc = "ins_persist" ->
             {[c |-> c, store |-> p.store, h |-> Responded(h, 201)] :
                  p \in Reliable(PersistInsert(store, h.key, h.value))}

\* deletionHandler, lines 782-816, one call at a time
DeletionSteps(c, store, h) ==
    CASE h.pc = "del_previous" ->
             {[c |-> v.c, store |-> store,
               h |-> [h EXCEPT !.pc = "del_erase", !.previous = v.ret]] :
                  v \in CacheCall(c, "get", h.key, "")}
      [] h.pc = "del_erase" ->
             {[c |-> e.c, store |-> store,
               h |-> [h EXCEPT !.pc = "del_persist", !.cache_removed = e.ret = "true"]] :
                  e \in CacheCall(c, "erase", h.key, "")}
      [] h.pc = "del_persist" ->
             {[c |-> c, store |-> p.store,
               h |-> IF ~p.ok /\ h.cache_removed
                     THEN IF h.previous # "nullopt" THEN [h EXCEPT !.pc = "del_restore"]
                          ELSE Responded(h, 500)
                     ELSE Responded(h, IF h.cache_removed \/ p.ok THEN 204 ELSE 404)] :
                  p \in Reliable(PersistRemove(store, h.key))}
      [] h.pc = "del_restore" ->
             {[c |-> u.c, store |-> store, h |-> Responded(h, 500)] :
                  u \in CacheCall(c, "update_or_insert", h.key, h.previous)}

\* updationHandler, lines 842-892, one call at a time
UpdationSteps(c, store, h) ==
    CASE h.pc = "upd_previous" ->
             {[c |-> v.c, store |-> store,
               h |-> [h EXCEPT !.pc = IF v.ret # "nullopt" THEN "upd_cache"
                                      ELSE "upd_persisted",
                               !.previous = v.ret]] :
                  v \in CacheCall(c, "get", h.key, "")}
      [] h.pc = "upd_persisted" ->
             {IF store[h.key] # "nullopt"
              THEN [c |-> c, store |-> store,
                    h |-> [h EXCEPT !.pc = "upd_hydrate", !.previous = store[h.key]]]
              ELSE [c |-> c, store |-> store, h |-> Responded(h, 404)]}
      [] h.pc = "upd_hydrate" ->
             {[c |-> u.c, store |-> store, h |-> [h EXCEPT !.pc = "upd_hydrated"]] :
                  u \in CacheCall(c, "update_or_insert", h.key, h.previous)}
      [] h.pc = "upd_hydrated" ->
             {IF v.ret # "nullopt"
              THEN [c |-> v.c, store |-> store,
                    h |-> [h EXCEPT !.pc = "upd_cache", !.previous = v.ret]]
              ELSE [c |-> v.c, store |-> store, h |-> Responded(h, 404)] :
                  v \in CacheCall(c, "get", h.key, "")}
      [] h.pc = "upd_cache" ->
             {[c |-> u.c, store |-> store,
               h |-> IF u.ret = "true" THEN [h EXCEPT !.pc = "upd_persist"]
                     ELSE Responded(h, 404)] :
                  u \in CacheCall(c, "update", h.key, h.value)}
      [] h.pc = "upd_persist" ->
             {[c |-> c, store |-> p.store,
               h |-> IF p.ok THEN Responded(h, 200) ELSE [h EXCEPT !.pc = "upd_rollback"]] :
                  p \in Reliable(PersistUpdate(store, h.key, h.value))}
      [] h.pc = "upd_rollback" ->
             {[c |-> u.c, store |-> store, h |-> Responded(h, 500)] :
                  u \in CacheCall(c, "update", h.key, h.previous)}

\* the first position of each handler
Entry ==
    [get_key |-> "get_cache", insert |-> "ins_cache", delete_key |-> "del_previous",
     update_key |-> "upd_previous"]

\* a request reaches thread t: the key is parsed, and a key that is no integer is
\* answered with 400 at once
Accept(t) ==
    /\ listening
    /\ handling[t].pc = "idle"
    /\ opsLeft[t] > 0
    /\ \E handler \in DOMAIN Entry, key_str \in KeyStrings, value_str \in Values :
           /\ handler \in {"get_key", "delete_key"} => value_str = "a"
           /\ handling' =
                  [handling EXCEPT
                      ![t] = IF ParseInt(key_str) = NoInt
                             THEN [NotHandling EXCEPT !.pc = "done", !.handler = handler,
                                                      !.status = 400]
                             ELSE [NotHandling EXCEPT
                                      !.pc = Entry[handler], !.handler = handler,
                                      !.key = ParseInt(key_str),
                                      !.value = IF handler \in {"insert", "update_key"}
                                                THEN value_str ELSE ""]]
    /\ opsLeft' = [opsLeft EXCEPT ![t] = @ - 1]
    /\ UNCHANGED <<policy_, maxBytes_, buckets_, mtx, lruMutex_, lruList_, fifoCounter_,
                   stats_, th, pre, getsCalled, evicted, wrote, persistence_adapter,
                   skip_preload, listening, res, out, req, free_conns>>

\* thread t makes the next call of its handler
Handle(t, steps) ==
    /\ \E r \in steps :
           /\ SetCache(r.c)
           /\ persistence_adapter' = r.store
           /\ handling' = [handling EXCEPT ![t] = r.h]
           /\ res' = IF r.h.pc = "done" THEN r.h.status ELSE res
    /\ getsCalled' = IF handling[t].pc \in {"get_cache", "ins_existing", "del_previous",
                                             "upd_previous", "upd_hydrated"}
                     THEN getsCalled + 1 ELSE getsCalled
    /\ UNCHANGED <<policy_, maxBytes_, th, opsLeft, pre, evicted, wrote, skip_preload,
                   listening, out, req, free_conns>>

GetKeyStep(t) ==
    /\ handling[t].pc \in {"get_cache", "get_persisted", "get_populate"}
    /\ Handle(t, GetKeySteps(Shared, persistence_adapter, handling[t]))

InsertionStep(t) ==
    /\ handling[t].pc \in {"ins_cache", "ins_existing", "ins_persist"}
    /\ Handle(t, InsertionSteps(Shared, persistence_adapter, handling[t]))

DeletionStep(t) ==
    /\ handling[t].pc \in {"del_previous", "del_erase", "del_persist", "del_restore"}
    /\ Handle(t, DeletionSteps(Shared, persistence_adapter, handling[t]))

UpdationStep(t) ==
    /\ handling[t].pc \in {"upd_previous", "upd_persisted", "upd_hydrate", "upd_hydrated",
                           "upd_cache", "upd_persist", "upd_rollback"}
    /\ Handle(t, UpdationSteps(Shared, persistence_adapter, handling[t]))

NextConcurrent ==
    \/ Start
    \/ \E t \in Threads :
           Accept(t) \/ GetKeyStep(t) \/ InsertionStep(t) \/ DeletionStep(t)
               \/ UpdationStep(t)

MaxConcurrentRequests == 1

\* the server of InitServer with an LRU cache, a table with rows for the keys 1 and 2
\* only, and every thread about to handle MaxConcurrentRequests requests
InitConcurrent ==
    /\ InitCache({ServerMaxBytes})
    /\ policy_ = "LRU"
    /\ persistence_adapter \in
           {s \in [Keys -> Values \cup {"nullopt"}] : s[3] = "nullopt"}
    /\ skip_preload \in BOOLEAN
    /\ listening = FALSE
    /\ res = 0
    /\ out = ""
    /\ req = NoRequest
    /\ free_conns = <<>>
    /\ handling = [t \in Threads |-> NotHandling]
    /\ opsLeft = [t \in Threads |-> MaxConcurrentRequests]

SpecConcurrent == InitConcurrent /\ [][NextConcurrent]_vars

(***************************************************************************)
(* Vocabulary of the properties.                                           *)
(***************************************************************************)
RECURSIVE SeqToSet(_)
SeqToSet(q) == IF q = <<>> THEN {} ELSE {Head(q)} \cup SeqToSet(Tail(q))

\* the keys stored in the buckets of c, and their values
StoredKeys(c) == UNION {{e.key : e \in SeqToSet(c.buckets[b])} : b \in BucketIds}

\* thread t returns from its call in this step
CallReturns(t) ==
    th[t].pc \notin {"idle", "hung"} /\ th'[t].pc = "idle" /\ th'[t].ret # "exception"

\* the thread t waits for, 0 if it waits for none
WaitsFor(t) == OwnerOf(Shared, WantedMutex(th[t]))

RECURSIVE WaitChain(_, _)
\* the thread reached from t by following WaitsFor n times, 0 if the chain ends
WaitChain(t, n) ==
    IF n = 0 THEN t
    ELSE IF WaitChain(t, n - 1) = 0 THEN 0
    ELSE WaitsFor(WaitChain(t, n - 1))

(***************************************************************************)
(* C1.  Every key is stored in at most one bucket, at most once in it,     *)
(* only in the bucket its hash selects, and at most once in the recency    *)
(* list, in every state any interleaving of calls reaches.                 *)
(***************************************************************************)
C1_KeyUniqueness ==
    /\ \A b \in BucketIds : \A i \in 1 .. Len(buckets_[b]) :
           /\ BucketIndex(buckets_[b][i].key) = b
           /\ \A j \in 1 .. Len(buckets_[b]) :
                  i # j => buckets_[b][i].key # buckets_[b][j].key
    /\ \A b1, b2 \in BucketIds :
           b1 # b2 =>
               {e.key : e \in SeqToSet(buckets_[b1])} \cap
               {e.key : e \in SeqToSet(buckets_[b2])} = {}
    /\ \A i, j \in 1 .. Len(lruList_) : i # j => lruList_[i].key # lruList_[j].key

\* all calls made and returned, every key stored, two of them in one bucket
C1_Witness ==
    /\ \A t \in Threads : th[t].pc = "idle" /\ opsLeft[t] = 0
    /\ StoredKeys(Shared) = Keys
    /\ Len(lruList_) = Cardinality(Keys)
    /\ \E b \in BucketIds : Len(buckets_[b]) >= 2

(***************************************************************************)
(* C2.  Whenever insert_if_absent, update or update_or_insert returns     *)
(* while no other thread is inside a call that may still evict,            *)
(* bytes_estimated <= maxBytes_ or the cache holds no entry.               *)
(***************************************************************************)
C2_BudgetOnQuietReturn ==
    [][\A t \in Threads :
           (/\ CallReturns(t) /\ th[t].op \in WriteOps
            /\ \A u \in Threads \ {t} : th[u].pc \in {"idle", "hung"}) =>
               (~UGreater(stats_'.bytes_estimated, maxBytes_) \/ stats_'.size_entries = 0)]_vars

(***************************************************************************)
(* C3.  No reachable state is a deadlock: no thread waits for a mutex      *)
(* whose owner waits, directly or through other threads, for that thread   *)
(* (in particular no thread waits for a mutex it holds itself).            *)
(***************************************************************************)
C3_NoDeadlock ==
    \A t \in Threads : \A n \in 1 .. Cardinality(Threads) : WaitChain(t, n) # t

(***************************************************************************)
(* C4.  Worker threads on pairwise disjoint keys, with a budget that holds *)
(* every key whatever its value: once every worker has made all its calls  *)
(* and each call has returned, get of a key returns the value its worker   *)
(* wrote last, for every key the worker inserted and did not erase.        *)
(***************************************************************************)
C4_DisjointKeysRetrievable ==
    (\A t \in Threads : th[t].pc = "idle" /\ th[t].ret # "exception" /\ opsLeft[t] = 0) =>
        \A t \in Threads :
            wrote[t] # "nullopt" =>
                \A r \in RunCall(Shared, "get", OwnKey(t), "", t) : r.l.ret = wrote[t]

(***************************************************************************)
(* Single-threaded runs: the call recorded in pre has been left.           *)
(***************************************************************************)
CallDone == pre.op # "none" /\ th[1].pc \in {"idle", "hung"}

\* it was left by a return
CallReturned == CallDone /\ th[1].pc = "idle" /\ th[1].ret # "exception"

\* the recorded call is an insert of a new key that takes the estimate over the budget
\* of a cache that was within it
InsertOverflows ==
    /\ pre.op \in {"insert_if_absent", "update_or_insert"}
    /\ ~Present(pre.c, pre.key)
    /\ pre.c.lruList # <<>>
    /\ ~UGreater(pre.c.stats.bytes_estimated, maxBytes_)
    /\ UGreater(pre.c.stats.bytes_estimated + SizeofEntry + Len(pre.value), maxBytes_)

\* removing the entry of key k takes the overflowing insert back within the budget
OneEvictionSuffices(k) ==
    ~UGreater(pre.c.stats.bytes_estimated + SizeofEntry + Len(pre.value)
                  - (SizeofEntry + Len(EntryOf(pre.c, k).value)), maxBytes_)

\* the key at the tail of the recency list the call started from
TailKey == pre.c.lruList[Len(pre.c.lruList)].key

\* all entries of a cache state
AllEntries(c) == UNION {SeqToSet(c.buckets[b]) : b \in BucketIds}

\* the key with the smallest insertion sequence number in the state the call started from
FirstInKey ==
    (CHOOSE e \in AllEntries(pre.c) :
         \A f \in AllEntries(pre.c) : ~ULess(f.fifo_order, e.fifo_order)).key

(***************************************************************************)
(* C5.  Under LRU an insert that takes the cache over budget returns true  *)
(* having removed the key at the tail of the recency list; where that one  *)
(* removal suffices, every other key and the new key stay stored.          *)
(***************************************************************************)
C5_LruEvictsTail ==
    (CallDone /\ policy_ = "LRU" /\ InsertOverflows) =>
        /\ CallReturned /\ th[1].ret = "true"
        /\ TailKey \notin StoredKeys(Shared)
        /\ OneEvictionSuffices(TailKey) =>
               StoredKeys(Shared) = (StoredKeys(pre.c) \ {TailKey}) \cup {pre.key}

(***************************************************************************)
(* C6.  Under FIFO an insert that takes the cache over budget returns true *)
(* having removed the entry with the smallest insertion sequence number;   *)
(* where that one removal suffices, every other key and the new key stay   *)
(* stored.  get and update leave every insertion sequence number as it is. *)
(***************************************************************************)
C6_FifoEvictsFirstIn ==
    /\ (CallDone /\ policy_ = "FIFO" /\ InsertOverflows) =>
           /\ CallReturned /\ th[1].ret = "true"
           /\ FirstInKey \notin StoredKeys(Shared)
           /\ OneEvictionSuffices(FirstInKey) =>
                  StoredKeys(Shared) = (StoredKeys(pre.c) \ {FirstInKey}) \cup {pre.key}
    /\ (CallDone /\ pre.op \in {"get", "update"}) =>
           \A e \in AllEntries(Shared) :
               \E f \in AllEntries(pre.c) : f.key = e.key /\ f.fifo_order = e.fifo_order

(***************************************************************************)
(* C7.  Under Random an insert that takes the cache over budget returns    *)
(* true with the eviction counter above zero and bytes_estimated within    *)
(* the budget.                                                             *)
(***************************************************************************)
C7_RandomKeepsBudget ==
    (CallDone /\ policy_ = "Random" /\ InsertOverflows) =>
        /\ CallReturned /\ th[1].ret = "true"
        /\ stats_.evictions > 0
        /\ ~UGreater(stats_.bytes_estimated, maxBytes_)

\* the state update_or_insert(k, v) leaves a freshly constructed cache in
FreshWith(k, v) ==
    [EmptyCache EXCEPT
         !.buckets[BucketIndex(k)] =
             <<[key |-> k, value |-> v, lru_iterator |-> 0, fifo_order |-> 0]>>,
         !.lruList = <<[id |-> 0, key |-> k]>>,
         !.fifoCounter = 1,
         !.stats.size_entries = 1,
         !.stats.bytes_estimated = SizeofEntry + Len(v)]

\* the budget holds one entry of value v
HoldsOne(v) == ~UGreater(SizeofEntry + Len(v), maxBytes_)

(***************************************************************************)
(* C8.  On a freshly constructed cache whose budget holds the entry,       *)
(* update_or_insert(k, v) returns leaving exactly the entry (k, v), and    *)
(* get(k) called in that state returns v.                                  *)
(***************************************************************************)
C8_UpsertThenGet ==
    /\ (CallDone /\ pre.op = "update_or_insert" /\ pre.c = EmptyCache /\ HoldsOne(pre.value)) =>
           /\ CallReturned /\ th[1].ret = "true"
           /\ Shared = FreshWith(pre.key, pre.value)
    /\ \A v \in Values :
           (CallDone /\ pre.op = "get" /\ HoldsOne(v) /\ pre.c = FreshWith(pre.key, v)) =>
               CallReturned /\ th[1].ret = v

\* get has returned "bb" from the state update_or_insert(k, "bb") left a fresh cache in
C8_Witness ==
    /\ CallReturned /\ pre.op = "get" /\ HoldsOne("bb")
    /\ pre.c = FreshWith(pre.key, "bb")
    /\ th[1].ret = "bb"
    /\ stats_.hits = 1

(***************************************************************************)
(* C9.  insert_if_absent on a present key returns false and leaves the     *)
(* entries, the entry count, bytes_estimated and the eviction counter as   *)
(* they were, and the recency list with the same keys; an insert_if_absent *)
(* that returns true leaves its value stored, and get of a present key     *)
(* returns the stored value and leaves the entries as they were.           *)
(***************************************************************************)
C9_InsertIfAbsentPresent ==
    /\ (CallDone /\ pre.op = "insert_if_absent" /\ Present(pre.c, pre.key)) =>
           /\ CallReturned /\ th[1].ret = "false"
           /\ buckets_ = pre.c.buckets
           /\ stats_.size_entries = pre.c.stats.size_entries
           /\ stats_.bytes_estimated = pre.c.stats.bytes_estimated
           /\ stats_.evictions = pre.c.stats.evictions
           /\ SeqToSet(lruList_) = SeqToSet(pre.c.lruList)
           /\ Len(lruList_) = Len(pre.c.lruList)
    /\ (CallReturned /\ pre.op = "insert_if_absent" /\ th[1].ret = "true") =>
           /\ ~Present(pre.c, pre.key)
           /\ Present(Shared, pre.key) /\ EntryOf(Shared, pre.key).value = pre.value
    /\ (CallDone /\ pre.op = "get" /\ Present(pre.c, pre.key)) =>
           /\ CallReturned /\ th[1].ret = EntryOf(pre.c, pre.key).value
           /\ buckets_ = pre.c.buckets

\* insert_if_absent with another value has returned false on a present key that was
\* not the most recent one
C9_Witness ==
    /\ CallReturned /\ pre.op = "insert_if_absent"
    /\ Present(pre.c, pre.key)
    /\ EntryOf(pre.c, pre.key).value # pre.value
    /\ th[1].ret = "false"
    /\ lruList_ # pre.c.lruList

\* how the call thread t made has ended, and the shared state it has left
Effect(c, l) ==
    [c |-> c,
     end |-> IF l.pc = "hung" THEN "blocked"
             ELSE IF l.ret = "exception" THEN "exception" ELSE "returned"]

\* the effects update or insert_if_absent can have in the state the call started from
PrimitiveEffects(op) ==
    {Effect(r.c, r.l) : r \in RunCall(pre.c, op, pre.key, pre.value, 1)}

(***************************************************************************)
(* C10.  update_or_insert(k, v) has one of the effects (entries, recency   *)
(* list, counters, eviction outcome) that update(k, v) has in the same     *)
(* state when k is present and insert_if_absent(k, v) has when k is        *)
(* absent, and each effect of these two is one of update_or_insert; it     *)
(* returns true exactly when k was absent.                                 *)
(***************************************************************************)
C10_UpsertIsUpdateOrInsert ==
    /\ (CallDone /\ pre.op = "update_or_insert") =>
           /\ Effect(Shared, th[1]) \in
                  PrimitiveEffects(IF Present(pre.c, pre.key) THEN "update"
                                   ELSE "insert_if_absent")
           /\ CallReturned => (th[1].ret = "true" <=> ~Present(pre.c, pre.key))
           /\ CallReturned => th[1].ret \in {"true", "false"}
    /\ (/\ CallDone
        /\ \/ pre.op = "update" /\ Present(pre.c, pre.key)
           \/ pre.op = "insert_if_absent" /\ ~Present(pre.c, pre.key)) =>
           Effect(Shared, th[1]) \in PrimitiveEffects("update_or_insert")

\* update_or_insert has changed the length of a present key's value, evicted and
\* returned false
C10_Witness ==
    /\ CallReturned /\ pre.op = "update_or_insert"
    /\ Present(pre.c, pre.key)
    /\ Len(EntryOf(pre.c, pre.key).value) # Len(pre.value)
    /\ th[1].ret = "false"
    /\ stats_.evictions > pre.c.stats.evictions

(***************************************************************************)
(* C11.  update(k, v) on a key that is not in the cache returns false and  *)
(* leaves the whole cache state as it was: entries, recency list,          *)
(* insertion counter, entry count, bytes_estimated, hits, misses and       *)
(* evictions.                                                              *)
(***************************************************************************)
C11_UpdateAbsentNoEffect ==
    (CallDone /\ pre.op = "update" /\ ~Present(pre.c, pre.key)) =>
        /\ CallReturned /\ th[1].ret = "false"
        /\ Shared = pre.c

\* update has returned false on an absent key of a cache that holds other keys
C11_Witness ==
    /\ CallReturned /\ pre.op = "update"
    /\ ~Present(pre.c, pre.key)
    /\ pre.c.lruList # <<>>
    /\ th[1].ret = "false"

\* the recorded call is an update of a present key
UpdatesPresent == pre.op = "update" /\ Present(pre.c, pre.key)

\* bytes_estimated of the state the call started from, adjusted by the value-size delta
BytesAfterUpdate ==
    pre.c.stats.bytes_estimated + Len(pre.value) - Len(EntryOf(pre.c, pre.key).value)

\* what the claim says of an update of a present key that has returned
UpdateReplacedInPlace ==
    /\ th[1].ret = "true"
    /\ Present(Shared, pre.key)
    /\ \A r \in RunCall(Shared, "get", pre.key, "", 1) : r.l.ret = pre.value
    /\ stats_.bytes_estimated = BytesAfterUpdate
    /\ stats_.size_entries = pre.c.stats.size_entries
    /\ EntryOf(Shared, pre.key).fifo_order = EntryOf(pre.c, pre.key).fifo_order

(***************************************************************************)
(* C12.  update(k, v) on a present key that leaves bytes_estimated within  *)
(* the budget returns true; a following get(k) returns v, bytes_estimated  *)
(* has changed by exactly len(v) minus the old value's length, and the     *)
(* entry count and the entry's insertion sequence number are unchanged.    *)
(***************************************************************************)
C12_UpdatePresentWithinBudget ==
    (CallDone /\ UpdatesPresent /\ ~UGreater(BytesAfterUpdate, maxBytes_)) =>
        CallReturned /\ UpdateReplacedInPlace

\* C12 as the claim states it, for every update of a present key that returns
C12_UpdatePresentAlways == (CallReturned /\ UpdatesPresent) => UpdateReplacedInPlace

\* update has shrunk the value of a present key and returned true
C12_Witness ==
    /\ CallReturned /\ UpdatesPresent
    /\ Len(pre.value) < Len(EntryOf(pre.c, pre.key).value)
    /\ ~UGreater(BytesAfterUpdate, maxBytes_)
    /\ th[1].ret = "true"
    /\ pre.c.stats.size_entries > 1

\* the keys of a recency list, front first
LruKeys(list) == [i \in 1 .. Len(list) |-> list[i].key]

\* a sequence of keys without key k
RECURSIVE WithoutKey(_, _)
WithoutKey(ks, k) ==
    IF ks = <<>> THEN <<>>
    ELSE IF Head(ks) = k THEN WithoutKey(Tail(ks), k)
    ELSE <<Head(ks)>> \o WithoutKey(Tail(ks), k)

(***************************************************************************)
(* C13.  erase(k) on a present key returns true, removes k from its bucket *)
(* and from the recency list and nothing else, decreases the entry count   *)
(* by one and bytes_estimated by sizeof(Entry) plus the value's length,    *)
(* and a following get(k) misses; erase(k) on an absent key returns false  *)
(* and leaves the whole cache state as it was.                             *)
(***************************************************************************)
C13_Erase ==
    /\ (CallDone /\ pre.op = "erase" /\ Present(pre.c, pre.key)) =>
           /\ CallReturned /\ th[1].ret = "true"
           /\ AllEntries(Shared) = AllEntries(pre.c) \ {EntryOf(pre.c, pre.key)}
           /\ \A b \in BucketIds : \A e \in SeqToSet(buckets_[b]) : BucketIndex(e.key) = b
           /\ LruKeys(lruList_) = WithoutKey(LruKeys(pre.c.lruList), pre.key)
           /\ stats_.size_entries = pre.c.stats.size_entries - 1
           /\ stats_.bytes_estimated =
                  pre.c.stats.bytes_estimated
                      - (SizeofEntry + Len(EntryOf(pre.c, pre.key).value))
           /\ stats_.hits = pre.c.stats.hits /\ stats_.misses = pre.c.stats.misses
           /\ stats_.evictions = pre.c.stats.evictions
           /\ \A r \in RunCall(Shared, "get", pre.key, "", 1) : r.l.ret = "nullopt"
    /\ (CallDone /\ pre.op = "erase" /\ ~Present(pre.c, pre.key)) =>
           /\ CallReturned /\ th[1].ret = "false"
           /\ Shared = pre.c

\* erase has returned true on a present key that was not the most recent of several
C13_Witness ==
    /\ CallReturned /\ pre.op = "erase"
    /\ Present(pre.c, pre.key)
    /\ Len(pre.c.lruList) >= 2
    /\ pre.c.lruList[1].key # pre.key
    /\ th[1].ret = "true"

(***************************************************************************)
(* C14.  Whenever no thread is inside a call, hits + misses equals the     *)
(* number of get calls made.                                               *)
(***************************************************************************)
C14_HitsPlusMisses ==
    (\A t \in Threads : th[t].pc = "idle") => stats_.hits + stats_.misses = getsCalled

\* single-threaded: a get that finds its key increments hits only, a get that does not
\* increments misses only, and no other operation that returns changes either
C14_GetCountsOnce ==
    /\ (CallDone /\ pre.op = "get" /\ Present(pre.c, pre.key)) =>
           /\ CallReturned
           /\ stats_.hits = pre.c.stats.hits + 1 /\ stats_.misses = pre.c.stats.misses
    /\ (CallDone /\ pre.op = "get" /\ ~Present(pre.c, pre.key)) =>
           /\ CallReturned
           /\ stats_.hits = pre.c.stats.hits /\ stats_.misses = pre.c.stats.misses + 1
    /\ (CallDone /\ pre.op # "get") =>
           stats_.hits = pre.c.stats.hits /\ stats_.misses = pre.c.stats.misses

(***************************************************************************)
(* C15.  Whenever no thread is inside a call, the evictions counter equals *)
(* the number of entries the eviction engine has removed.                  *)
(***************************************************************************)
C15_EvictionsCountRemovals ==
    (\A t \in Threads : th[t].pc = "idle") => stats_.evictions = evicted

RECURSIVE SumEntryBytes(_, _)
\* the cost of the entries of one bucket from position i on: sizeof(Entry) + value.size() each
SumEntryBytes(entries, i) ==
    IF i > Len(entries) THEN 0
    ELSE SizeofEntry + Len(entries[i].value) + SumEntryBytes(entries, i + 1)

RECURSIVE SumBucketBytes(_, _)
\* the cost of all live entries of the buckets b, b + 1, ...
SumBucketBytes(c, b) ==
    IF b >= NBuckets THEN 0
    ELSE SumEntryBytes(c.buckets[b], 1) + SumBucketBytes(c, b + 1)

\* the byte estimate formula applied to the live entries
LiveBytes(c) == SumBucketBytes(c, 0)

\* C16: whenever every started operation has completed, bytes_estimated is the
\* sum over the live entries of (sizeof(Entry) + value length), and it has not
\* wrapped below zero.
C16_BytesEstimated ==
    (\A t \in Threads : th[t].pc = "idle") =>
        /\ stats_.bytes_estimated = LiveBytes(Shared)
        /\ stats_.bytes_estimated >= 0

\* thread t's step takes a bucket mutex: it was at a lock of a mutex it does not own
\* (lines 54, 69, 96, 117, 134, 229, 246) and has moved on, or it drew a free
\* bucket in evictRandom and locked it in the same step
AcquiresShard(t) ==
    /\ th'[t] # th[t]
    /\ \/ WantedMutex(th[t])[1] = "bucket" /\ ~SelfRelock(Shared, th[t], t)
       \/ th[t].pc = "rand_draw" /\ th'[t].pc \notin {"rand_lock", "lru_pick"}

\* C17: shard first, then recency: no step in which a thread takes a bucket mutex
\* starts with that thread holding lruMutex_.
C17_ShardBeforeRecency ==
    [][\A t \in Threads : AcquiresShard(t) => lruMutex_ # t]_vars

\* the bucket mutexes thread t owns
ShardsHeld(t) == {b \in BucketIds : mtx[b] = t}

\* C18: one shard lock at a time: no step in which a thread takes a bucket mutex
\* starts with that thread owning a bucket mutex, so no thread ever owns two.
C18_OneShardLock ==
    [][\A t \in Threads : AcquiresShard(t) => ShardsHeld(t) = {}]_vars

\* C18, as a state predicate: no thread owns two bucket mutexes
C18_AtMostOneShardHeld == \A t \in Threads : Cardinality(ShardsHeld(t)) <= 1

\* what the cache holds: key -> value, "nullopt" for a key without an entry
CacheContents(c) ==
    [k \in Keys |-> IF Present(c, k) THEN EntryOf(c, k).value ELSE "nullopt"]

\* the last request was a POST /insert with an integer key
ServedInsert == req.handler = "insert" /\ req.key # NoInt

\* the key of the last request had a value when the request came in, in the cache
\* or in the table only
HadValue == Present(req.c, req.key) \/ req.store[req.key] # "nullopt"

\* C19: POST /insert on a key that has a value, cached or only persisted, answers
\* 409 and leaves the contents of the cache and the table as they were; it answers
\* 201 only for a key without a value, and then both hold the new value.  (A
\* request during which the persistence layer failed is left aside.)
C19_InsertConflict ==
    (ServedInsert /\ req.persist # "failed") =>
        /\ HadValue => /\ res = 409
                       /\ CacheContents(Shared) = CacheContents(req.c)
                       /\ persistence_adapter = req.store
        /\ res = 201 => /\ ~HadValue
                        /\ CacheContents(Shared)[req.key] = req.value
                        /\ persistence_adapter[req.key] = req.value

\* C19, for a key the cache holds: 409, contents and table unchanged (auxiliary)
C19_CachedConflict ==
    (ServedInsert /\ Present(req.c, req.key)) =>
        /\ res = 409
        /\ CacheContents(Shared) = CacheContents(req.c)
        /\ persistence_adapter = req.store

\* C20: when POST /insert put a new key into the cache and the persistence insert
\* failed, the answer is 500, the cache has no entry for the key, its other
\* entries are as before, and the table is unchanged.
C20_FailedInsertRolledBack ==
    (ServedInsert /\ ~Present(req.c, req.key) /\ req.persist = "failed") =>
        /\ res = 500
        /\ ~Present(Shared, req.key)
        /\ CacheContents(Shared) = CacheContents(req.c)
        /\ persistence_adapter = req.store

\* C20's case: the insert of a new key failed in the table, next to another cached key
C20_Witness ==
    /\ ServedInsert /\ ~Present(req.c, req.key) /\ req.persist = "failed"
    /\ res = 500 /\ ~Present(Shared, req.key)
    /\ stats_.size_entries > 0

\* the last request was a GET /get_key with an integer key
ServedGetKey == req.handler = "get_key" /\ req.key # NoInt

\* every table the server may find at its next request
Stores == [Keys -> Values \cup {"nullopt"}]

\* what GET /get_key on the key of the last request would do now, whatever the table
\* holds by then
NextGetOfKey ==
    UNION {getKeyHandler(Shared, store, key_str) :
               store \in Stores, key_str \in {s \in KeyStrings : ParseInt(s) = req.key}}

\* C21: GET /get_key on a key the cache does not hold and the table does (its row
\* being read) answers 200 with the persisted value and caches it: the next GET of
\* the key answers 200 with that value and makes no persistence call, whatever the
\* table holds by then; on a key in neither it answers 404.
C21_ReadThrough ==
    (ServedGetKey /\ ~Present(req.c, req.key) /\ req.persist # "failed") =>
        IF req.store[req.key] # "nullopt"
        THEN /\ res = 200 /\ out = req.store[req.key]
             /\ CacheContents(Shared)[req.key] = req.store[req.key]
             /\ persistence_adapter = req.store
             /\ \A o \in NextGetOfKey :
                    /\ o.status = 200 /\ o.value = req.store[req.key]
                    /\ o.persist = "none"
        ELSE /\ res = 404
             /\ CacheContents(Shared) = CacheContents(req.c)
             /\ persistence_adapter = req.store

\* C21's case: a key was read through next to another cached key
C21_Witness ==
    /\ ServedGetKey /\ ~Present(req.c, req.key) /\ req.store[req.key] # "nullopt"
    /\ res = 200 /\ req.persist = "ok"
    /\ stats_.size_entries > 1

\* the last request was a PUT /update_key with an integer key
ServedUpdateKey == req.handler = "update_key" /\ req.key # NoInt

\* the value the key of the last request had when the request came in: the cached
\* one, or the persisted one for a key the cache did not hold
ValueBefore ==
    IF Present(req.c, req.key) THEN EntryOf(req.c, req.key).value
    ELSE req.store[req.key]

\* the cache and the table hold what they held before the request, but for its key
OtherKeysUntouched ==
    \A k \in Keys \ {req.key} :
        /\ CacheContents(Shared)[k] = CacheContents(req.c)[k]
        /\ persistence_adapter[k] = req.store[k]

C22_HydratedWitness ==
    /\ ServedUpdateKey /\ ~Present(req.c, req.key) /\ res = 200
    /\ persistence_adapter[req.key] = req.value /\ req.value # req.store[req.key]

\* the last request was a DELETE /delete_key with an integer key
ServedDeleteKey == req.handler = "delete_key" /\ req.key # NoInt

C23_DeletedWitness ==
    /\ ServedDeleteKey /\ Present(req.c, req.key) /\ res = 204
    /\ ~Present(Shared, req.key) /\ persistence_adapter[req.key] = "nullopt"

ServedBulk == req.handler = "bulk_update"

\* the entry of results that reports a failed operation, 0 when there is none
FailedEntry ==
    IF \E j \in 1 .. Len(out.results) : out.results[j].status = "failed"
    THEN CHOOSE j \in 1 .. Len(out.results) : out.results[j].status = "failed"
    ELSE 0

NamedKeys == {req.value[j].key : j \in 1 .. Len(req.value)}

\* C25: after a POST /bulk_update request in which every operation succeeded, every
\* key named in the request is absent from the cache and from persistence, or the
\* cache holds the persisted value
C25_BulkCacheAgrees ==
    (ServedBulk /\ req.persist = "ok" /\ out.success) =>
        \A k \in NamedKeys : CacheContents(Shared)[k] = persistence_adapter[k]

\* a request of two operations on one key has succeeded and changed what the cache
\* held for the key
C25_Witness ==
    /\ ServedBulk /\ req.persist = "ok" /\ out.success
    /\ Len(req.value) = 2
    /\ req.value[1].key = req.value[2].key
    /\ req.value[1].type # req.value[2].type
    /\ CacheContents(Shared)[req.value[1].key] # CacheContents(req.c)[req.value[1].key]
    /\ CacheContents(Shared)[req.value[1].key] = persistence_adapter[req.value[1].key]

\* the same with a get as the first operation and a write as the second
C25_GetThenWrite ==
    /\ C25_Witness
    /\ req.value[1].type = "get"
    /\ req.value[2].type \in {"insert", "update", "delete"}

ServedTransaction == req.handler = "runTransaction"

RECURSIVE Committed(_, _, _)
\* the table once the operations of ops from i on are all applied to it
Committed(store, ops, i) ==
    IF i > Len(ops) THEN store
    ELSE Committed(CASE ops[i].type \in {"insert", "update"} ->
                            [store EXCEPT ![ops[i].key] = ops[i].value]
                     [] ops[i].type = "delete" -> [store EXCEPT ![ops[i].key] = "nullopt"]
                     [] ops[i].type = "get" -> store,
                   ops, i + 1)

\* C27: runTransaction in RollbackOnError mode is all-or-nothing whatever connection
\* it borrows: when it returns success false the table is the table it found, and
\* when it returns success true every operation has been applied
C27_AllOrNothing ==
    ServedTransaction =>
        IF out THEN persistence_adapter = Committed(req.store, req.value, 1)
        ELSE persistence_adapter = req.store

\* the same for the transactions that borrowed p_->conn
C27_OnMaster ==
    (ServedTransaction /\ req.key = Master) =>
        IF out THEN persistence_adapter = Committed(req.store, req.value, 1)
        ELSE persistence_adapter = req.store

\* a transaction on p_->conn whose second operation failed took its first back
C27_MasterWitness ==
    /\ ServedTransaction /\ req.key = Master /\ ~out
    /\ Len(req.value) = 2
    /\ req.value[1].type = "insert"
    /\ req.store[req.value[1].key] # req.value[1].value
    /\ req.value[2].type = "update"
    /\ req.store[req.value[2].key] = "nullopt"
    /\ req.value[2].key # req.value[1].key

\* every request accepted has been answered, and one has been
Quiescent ==
    /\ \A t \in Threads : handling[t].pc \in {"idle", "done"}
    /\ \E t \in Threads : handling[t].pc = "done"

\* C26: once all the concurrently handled GET /get_key, POST /insert,
\* PUT /update_key and DELETE /delete_key requests have completed, on a provider that
\* never fails, every key present in the cache holds the value persistence holds
C26_CacheAgreesWhenQuiet ==
    Quiescent =>
        \A k \in Keys : Present(Shared, k) =>
            CacheContents(Shared)[k] = persistence_adapter[k]

\* the same while only one thread has handled a request
C26_OneAtATime ==
    (Quiescent /\ \E t \in Threads : handling[t].pc = "idle") =>
        \A k \in Keys : Present(Shared, k) =>
            CacheContents(Shared)[k] = persistence_adapter[k]

\* a sequence of keys without the keys outside kept
RECURSIVE KeepKeys(_, _)
KeepKeys(ks, kept) ==
    IF ks = <<>> THEN <<>>
    ELSE IF Head(ks) \in kept THEN <<Head(ks)>> \o KeepKeys(Tail(ks), kept)
    ELSE KeepKeys(Tail(ks), kept)

\* the recorded call is a get that hits, an insert, or an update of a present key
TouchesKey ==
    \/ pre.op \in {"get", "update"} /\ Present(pre.c, pre.key)
    \/ pre.op \in {"update_or_insert", "insert_if_absent"}

\* C28: after a get that hits k, an insert of k or an update of k has returned, with
\* no concurrent operation, k is at the head of the recency list and the other keys
\* of the list are in the order they were in; a get that misses leaves the list as
\* it was
C28_RecencyOrder ==
    /\ (CallReturned /\ TouchesKey) =>
           /\ lruList_ # <<>>
           /\ Head(lruList_).key = pre.key
           /\ WithoutKey(LruKeys(lruList_), pre.key) =
                  KeepKeys(WithoutKey(LruKeys(pre.c.lruList), pre.key),
                           SeqToSet(LruKeys(lruList_)))
    /\ (CallReturned /\ pre.op = "get" /\ ~Present(pre.c, pre.key)) =>
           lruList_ = pre.c.lruList

\* the same with every other key still in the list when the call has evicted none
C28_NoEvictionSameKeys ==
    (CallReturned /\ TouchesKey /\ stats_.size_entries >= pre.c.stats.size_entries) =>
        WithoutKey(LruKeys(lruList_), pre.key) =
            WithoutKey(LruKeys(pre.c.lruList), pre.key)

\* a get has hit the last key of a list of three
C28_Witness ==
    /\ CallReturned /\ pre.op = "get"
    /\ Len(pre.c.lruList) = 3
    /\ pre.c.lruList[3].key = pre.key
    /\ Head(lruList_).key = pre.key
    /\ lruList_[2].key = pre.c.lruList[1].key
    /\ lruList_[3].key = pre.c.lruList[2].key

\* an update has moved its key to the head and evicted another key
C28_UpdateEvictsWitness ==
    /\ CallReturned /\ pre.op = "update" /\ Present(pre.c, pre.key)
    /\ Len(lruList_) < Len(pre.c.lruList)
    /\ Head(pre.c.lruList).key # pre.key
    /\ Head(lruList_).key = pre.key

\* C29: no thread ever tries to acquire a mutex it already holds: no thread is at a
\* lock of a bucket mutex or of lruMutex_ that it owns
C29_NoSelfRelock == \A t \in Threads : ~SelfRelock(Shared, th[t], t)

\* the same for the bucket mutexes alone, and for lruMutex_ alone
C29_NoShardRelock ==
    \A t \in Threads : WantedMutex(th[t])[1] = "bucket" => ~SelfRelock(Shared, th[t], t)

C29_NoRecencyRelock ==
    \A t \in Threads : WantedMutex(th[t])[1] = "lru" => ~SelfRelock(Shared, th[t], t)

\* the buckets whose entries the statement thread t is at reads or writes with the
\* lock taken by an earlier statement: the written key's bucket from the scan to the
\* return (lines 57-59, 73-89, 99-110, 120-125), the victim's in removeEntry
\* (lines 193-199)
BucketsAccessed(t) ==
    CASE th[t].pc \in {"touch", "ins_lru", "upd_bytes"} -> {BucketIndex(th[t].key)}
      [] th[t].pc \in {"rm_lru", "rm_bytes", "rm_size"} -> {BucketIndex(th[t].ekey)}
      [] OTHER -> {}

\* thread t takes the step
Acts(t) == th'[t] # th[t]

\* C30: every read or modification of a bucket's entries is made by a thread that
\* holds the bucket's mutex, and every read or modification of lruList_ by a thread
\* that holds lruMutex_: a thread at a statement that accesses a bucket owns its
\* mutex, a step that changes a bucket is taken by the owner of its mutex or by the
\* thread that locks it in that step, and a step that changes lruList_, or is the
\* critical section of touchLRU, removeEntry, evictLRU or the insert of a node, is
\* taken while no other thread holds lruMutex_
C30_AccessUnderLock ==
    [][\A t \in Threads :
           Acts(t) =>
               /\ \A b \in BucketsAccessed(t) : mtx[b] = t
               /\ \A b \in BucketIds :
                      buckets_'[b] # buckets_[b] => (mtx[b] = t \/ mtx'[b] = t)
               /\ lruList_' # lruList_ => (lruMutex_ \in {0, t} /\ lruMutex_' \in {0, t})
               /\ th[t].pc \in {"touch", "rm_lru", "lru_pick", "ins_lru"} =>
                      lruMutex_ \in {0, t}]_vars

\* a thread in evictFIFO is at the lock of a bucket that the other thread holds
C30_Witness ==
    \E t, u \in Threads :
        /\ u # t
        /\ th[t].pc = "fifo_scan"
        /\ mtx[th[t].bi] = u

\* a thread is at touchLRU while the other holds lruMutex_
C30_RecencyContended ==
    \E t, u \in Threads : th[t].pc = "touch" /\ lruMutex_ = u /\ u # t

\* bytes_estimated as the recorded write leaves it before evictIfNeeded runs
BytesAfterWrite ==
    IF Present(pre.c, pre.key) THEN BytesAfterUpdate
    ELSE pre.c.stats.bytes_estimated + SizeofEntry + Len(pre.value)

\* the recorded call is one the claim says evicts nothing
NonEvicting ==
    \/ pre.op \in {"get", "erase"}
    \/ pre.op = "update" /\ ~Present(pre.c, pre.key)
    \/ pre.op = "insert_if_absent" /\ Present(pre.c, pre.key)
    \/ pre.op \in WriteOps /\ ~UGreater(BytesAfterWrite, maxBytes_)

\* the entries the recorded call has taken out of the cache
RemovedByCall == {e \in AllEntries(pre.c) : ~Present(Shared, e.key)}

(***************************************************************************)
(* C31.  Eviction runs only while bytes_estimated exceeds the budget after *)
(* a successful insert or update: a get, an erase, an update of an absent  *)
(* key, an insert_if_absent of a present key and a write that leaves the   *)
(* estimate at or under the budget return with every other entry still     *)
(* stored and stats_.evictions unchanged, and a write that did evict       *)
(* stopped at the first removal that brought the estimate within budget.   *)
(***************************************************************************)
C31_EvictOnlyOverBudget ==
    /\ CallDone /\ NonEvicting =>
           /\ CallReturned
           /\ stats_.evictions = pre.c.stats.evictions
           /\ RemovedByCall \subseteq {e \in AllEntries(pre.c) :
                                           pre.op = "erase" /\ e.key = pre.key}
    /\ CallReturned /\ pre.op \in WriteOps /\ RemovedByCall # {} =>
           /\ UGreater(BytesAfterWrite, maxBytes_)
           /\ \E e \in RemovedByCall :
                  UGreater(stats_.bytes_estimated + SizeofEntry + Len(e.value), maxBytes_)

\* an insert that fills the budget exactly has returned and both entries are stored
C31_Witness ==
    /\ CallReturned
    /\ pre.op \in {"insert_if_absent", "update_or_insert"}
    /\ ~Present(pre.c, pre.key)
    /\ pre.c.stats.size_entries > 0
    /\ BytesAfterWrite = maxBytes_
    /\ stats_.bytes_estimated = maxBytes_
    /\ stats_.evictions = pre.c.stats.evictions
    /\ StoredKeys(Shared) = StoredKeys(pre.c) \cup {pre.key}

\* an update that took the estimate over the budget has evicted and returned within it
C31_EvictedWitness ==
    /\ CallReturned
    /\ pre.op \in WriteOps
    /\ RemovedByCall # {}
    /\ ~UGreater(stats_.bytes_estimated, maxBytes_)

C34_ReturnedWitness ==
    /\ CallReturned
    /\ pre.op \in WriteOps
    /\ stats_.evictions - pre.c.stats.evictions = GuardCap
    /\ UGreater(stats_.bytes_estimated, maxBytes_)

\* the recorded call is an update of a present key, under LRU, that takes the estimate
\* over the budget of a cache that was within it, with another key at the recency tail
UpdateOverflowsLRU ==
    /\ policy_ = "LRU"
    /\ pre.op \in {"update", "update_or_insert"}
    /\ Present(pre.c, pre.key)
    /\ ~UGreater(pre.c.stats.bytes_estimated, maxBytes_)
    /\ UGreater(BytesAfterUpdate, maxBytes_)
    /\ TailKey # pre.key

(***************************************************************************)
(* C35.  Eviction treats every integer key alike: when an update under LRU *)
(* takes the cache over its budget, every iteration of the eviction loop   *)
(* that reaches its stats_.evictions++ has removed the key that was at the *)
(* tail of the recency list, whatever its numeric value, -1 included.      *)
(***************************************************************************)
C35_TailEvictedWhateverKey ==
    UpdateOverflowsLRU /\ th[1].pc = "ev_inc" => ~Present(Shared, TailKey)

\* the same seen from the caller: the update has returned and the tail key is gone
C35_TailGoneOnReturn ==
    CallReturned /\ UpdateOverflowsLRU => ~Present(Shared, TailKey)

\* the same for the positive key alone: it is evicted
C35_PositiveTailEvicted ==
    CallReturned /\ UpdateOverflowsLRU /\ TailKey >= 0 =>
        /\ ~Present(Shared, TailKey)
        /\ ~UGreater(stats_.bytes_estimated, maxBytes_)

\* a negative key is stored, found, updated and erased like any other: what a call on it
\* returns and stores depends only on whether the key is present
C35_NegativeKeyStored ==
    CallReturned /\ pre.key < 0 =>
        /\ pre.op = "get" =>
               th[1].ret = IF Present(pre.c, pre.key) THEN EntryOf(pre.c, pre.key).value
                           ELSE "nullopt"
        /\ pre.op = "erase" =>
               /\ th[1].ret = (IF Present(pre.c, pre.key) THEN "true" ELSE "false")
               /\ ~Present(Shared, pre.key)
        /\ pre.op = "update_or_insert" =>
               Present(Shared, pre.key) /\ EntryOf(Shared, pre.key).value = pre.value
        /\ pre.op = "update" /\ Present(pre.c, pre.key) =>
               Present(Shared, pre.key) /\ EntryOf(Shared, pre.key).value = pre.value
        /\ pre.op = "insert_if_absent" /\ ~Present(pre.c, pre.key) =>
               Present(Shared, pre.key) /\ EntryOf(Shared, pre.key).value = pre.value

\* an update has evicted the positive key from the recency tail and returned
C35_PositiveWitness ==
    CallReturned /\ UpdateOverflowsLRU /\ TailKey >= 0 /\ ~Present(Shared, TailKey)

\* the recorded call is a write, under Random, that takes the estimate over the budget of
\* a cache that was within it and held an entry: evictIfNeeded calls evictRandom
StartsRandomEviction ==
    /\ policy_ = "Random"
    /\ pre.op \in WriteOps
    /\ ~NonEvicting
    /\ ~UGreater(pre.c.stats.bytes_estimated, maxBytes_)
    /\ AllEntries(pre.c) # {}

(***************************************************************************)
(* C33.  A Random eviction started on a non-empty cache always removes     *)
(* exactly one entry: a write under Random that goes over the budget of a  *)
(* cache holding an entry ends by returning, and each eviction it counted  *)
(* took one entry out (the first draw that lands on a non-empty shard      *)
(* removes an entry of that shard; the tail of the recency index goes only *)
(* after 32 draws of empty shards).                                        *)
(***************************************************************************)
C33_RandomRemovesOne ==
    CallDone /\ StartsRandomEviction =>
        /\ CallReturned
        /\ Cardinality(RemovedByCall) = stats_.evictions - pre.c.stats.evictions
        /\ RemovedByCall # {}

\* a draw that lands on a non-empty shard never removes anything: a thread under Random
\* is inside removeEntry for an eviction only through the fallback to evictLRU
C33_DrawNeverRemoves ==
    policy_ = "Random" =>
        \A t \in Threads :
            th[t].pc \in {"rm_lru", "rm_bytes", "rm_size"} /\ th[t].op # "erase" =>
                th[t].attempts = MaxAttempts

\* the draws are bounded by 32
C33_AtMost32Draws == \A t \in Threads : th[t].attempts <= MaxAttempts

\* all 32 draws have landed on empty shards and evictRandom has fallen back to evictLRU
C33_FallbackWitness ==
    policy_ = "Random" /\ th[1].pc = "lru_pick" /\ th[1].attempts = MaxAttempts

\* evictLRU, line 217, as its caller sees it: the victim read from the recency list of c,
\* -1 when the list is empty
LruVictim(c) == IF c.lruList = <<>> THEN NoVictim ELSE c.lruList[Len(c.lruList)].key

\* thread t is in evictLRU, about to read the victim, and will find none
FindsNoVictim(t) ==
    th[t].pc = "lru_pick" /\ lruMutex_ = 0 /\ LruVictim(Shared) = NoVictim

C32_NoVictimIsCounted ==
    [][\A t \in Threads :
           FindsNoVictim(t) /\ th'[t] # th[t] =>
               /\ buckets_' = buckets_
               /\ lruList_' = lruList_
               /\ th'[t].pc = "ev_inc"]_vars

\* evictLRU never sees the recency index empty: the writer that calls it holds the
\* bucket of its own key, which is in the index
C32_IndexNeverEmptyAtPick ==
    \A t \in Threads : th[t].pc = "lru_pick" => lruList_ # <<>>

\* evictLRU is about to find no victim in a cache that is over budget and holds entries
C32_NoVictimWitness ==
    /\ FindsNoVictim(1)
    /\ stats_.size_entries > 0
    /\ UGreater(stats_.bytes_estimated, maxBytes_)

RECURSIVE CountEntries(_, _)
\* the number of entries stored in the buckets from b on
CountEntries(c, b) ==
    IF b >= NBuckets THEN 0 ELSE Len(c.buckets[b]) + CountEntries(c, b + 1)

(***************************************************************************)
(* C36.  In every state a sequence of completed operations reaches,        *)
(* size_entries, the number of entries stored across the buckets and the   *)
(* length of the recency list are equal, and the keys of the recency list  *)
(* are exactly the keys stored in the buckets.                             *)
(***************************************************************************)
C36_CountsAgree ==
    th[1].pc = "idle" =>
        /\ stats_.size_entries = CountEntries(Shared, 0)
        /\ Len(lruList_) = CountEntries(Shared, 0)
        /\ SeqToSet(LruKeys(lruList_)) = StoredKeys(Shared)
        /\ Cardinality(StoredKeys(Shared)) = CountEntries(Shared, 0)

\* an erase of a present key has returned and left two entries
C36_Witness ==
    /\ CallReturned
    /\ pre.op = "erase"
    /\ Present(pre.c, pre.key)
    /\ stats_.size_entries = 2
    /\ Len(lruList_) = 2
    /\ CountEntries(Shared, 0) = 2

\* an eviction has completed and the three still agree
C36_EvictedWitness ==
    CallReturned /\ pre.op \in WriteOps /\ RemovedByCall # {} /\ Len(lruList_) > 0

(***************************************************************************)
(* C37.  With no other thread running, when insert_if_absent(k, v),        *)
(* update_or_insert(k, v) or update(k, v) returns true, key k is in the    *)
(* cache with value v at the return: under each of the three policies the  *)
(* eviction a write triggers never removes the entry just written.         *)
(***************************************************************************)
C37_WrittenEntrySurvives ==
    CallReturned /\ pre.op \in WriteOps /\ th[1].ret = "true" =>
        /\ Present(Shared, pre.key)
        /\ EntryOf(Shared, pre.key).value = pre.value
        /\ pre.key \in SeqToSet(LruKeys(lruList_))
        /\ \A e \in RemovedByCall : e.key # pre.key

\* a write has returned true after its eviction removed another entry
C37_Witness ==
    /\ CallReturned
    /\ pre.op \in WriteOps
    /\ th[1].ret = "true"
    /\ RemovedByCall # {}
    /\ Present(Shared, pre.key)
    /\ EntryOf(Shared, pre.key).value = pre.value

\* every thread has made all its calls and is outside any call
AllFinished == \A t \in Threads : th[t].pc = "idle" /\ (opsLeft[t] = 0 \/ th[t].ret = "exception")

(***************************************************************************)
(* C38.  The statistics counters lose no update under concurrency: once    *)
(* the threads, each working on a key of its own shard, have all finished, *)
(* size_entries is the number of live entries, bytes_estimated is the sum  *)
(* of sizeof(Entry) + value length over the live entries, and hits +       *)
(* misses is the number of get calls made.                                 *)
(***************************************************************************)
C38_NoLostUpdate ==
    AllFinished =>
        /\ stats_.size_entries = CountEntries(Shared, 0)
        /\ stats_.bytes_estimated = LiveBytes(Shared)
        /\ stats_.hits + stats_.misses = getsCalled

\* the entry count alone
C38_SizeEntriesExact == AllFinished => stats_.size_entries = CountEntries(Shared, 0)

(***************************************************************************)
(* C39.  Every connection insert, update, remove, get or runTransaction    *)
(* borrows from the pool is pushed back to free_conns before the call      *)
(* returns, on every path: a call leaves in the free queue the connections *)
(* it found there, so the queue is never left empty for a later call.      *)
(***************************************************************************)
C39_ConnectionsReturned ==
    [][/\ SeqToSet(free_conns') = SeqToSet(free_conns)
       /\ Len(free_conns') = Len(free_conns)]_vars

\* the four single-statement calls do return what they borrow
C39_SimpleCallsReturn ==
    [][req'.handler \in {"insert", "update", "remove", "get"} =>
           /\ SeqToSet(free_conns') = SeqToSet(free_conns)
           /\ Len(free_conns') = Len(free_conns)]_vars

\* a runTransaction that reports success has returned its connection
C39_SuccessReturns ==
    [][req'.handler = "runTransaction" /\ opsLeft' # opsLeft /\ out' = TRUE =>
           Len(free_conns') = Len(free_conns)]_vars

\* a later call always finds a free connection
C39_PoolNeverEmpty == free_conns # <<>>

\* the threads with a statement in flight on connection c
UsersOf(c) == {t \in Threads : handling[t].on = c}

(***************************************************************************)
(* C40.  A connection of the PersistenceAdapter is used by at most one     *)
(* thread at a time: a thread has a statement in flight only on the        *)
(* connection it has borrowed from the pool and not yet returned, so no    *)
(* two threads have statements in flight on the same connection, and a     *)
(* connection in use is not in free_conns; this includes the statements of *)
(* runTransaction and runTransactionJson.                                  *)
(***************************************************************************)
C40_OneThreadPerConnection ==
    /\ \A t \in Threads :
           handling[t].on # 0 =>
               /\ handling[t].on = handling[t].conn
               /\ handling[t].on \notin SeqToSet(free_conns)
    /\ \A t, u \in Threads :
           (t # u /\ handling[t].on # 0) => handling[t].on # handling[u].on

\* the same for insert, update, remove and get alone: they hold what they use
C40_SimpleCallsOwn ==
    \A t \in Threads :
        (handling[t].handler \in SimpleCalls /\ handling[t].on # 0) =>
            /\ handling[t].on = handling[t].conn
            /\ handling[t].on \notin SeqToSet(free_conns)

\* two threads have a statement in flight on p_->conn at once: a get that borrowed it
\* and a runTransactionJson of a worker
C40_SharedWitness ==
    \E t, u \in Threads :
        /\ t # u
        /\ handling[t].handler = "get" /\ handling[t].on = Master
        /\ handling[u].handler = "runTransactionJson" /\ handling[u].on = Master

====
